---- MODULE Spec2Model ----
(***************************************************************************)
(* A model of the unfc package: the capability detectors, the Nfc facade   *)
(* and its three backends (WebNfc, IosBridgeNfc, AndroidBridgeNfc).        *)
(*                                                                         *)
(* Conventions                                                             *)
(*  - a nullable JavaScript value is a sequence: <<>> is null/undefined    *)
(*    and <<x>> is the value x;                                            *)
(*  - a decimal version major + minor/10 is kept as the integer number of  *)
(*    tenths, major*10 + minor, and a threshold t as t*10;                 *)
(*  - an error message is the sequence of its words, and                   *)
(*    String.prototype.includes is a search for a contiguous run of words; *)
(*  - a user agent is the record of what the regular expressions of the    *)
(*    detectors can see in it.                                             *)
(***************************************************************************)
EXTENDS Integers, Sequences, FiniteSets, TLC

VARIABLES
    userAgent,              \* navigator.userAgent
    nativeNfcBridge,        \* window.nativeNfcBridge: a bridge shape
    nativeAndroidNfcBridge, \* window.nativeAndroidNfcBridge: a bridge shape
    NDEFReader,             \* 'NDEFReader' in window
    nfc,                    \* TRUE when a Nfc facade wraps the backend
    implementation,         \* the backend instance: its class, or "none"
    nfcListeners,           \* Nfc.listeners: event name -> set of callbacks
    isBridgeAvailable,      \* (bridge backends) frozen at construction
    bridge,                 \* (bridge backends) shape of the object this.bridge
    nfcSupported,           \* WebNfc.nfcSupported
    iosInfo,                \* WebNfc.iosInfo: <<>> or <<IosSupportInfo>>
    scanSessionActive,      \* WebNfc.scanSessionActive
    scanOnce,               \* WebNfc.scanOnce
    ndefReader,             \* WebNfc.ndefReader: 0 is null, else the reader's number
    readers,                \* number of NDEFReader objects wired with a reading handler
    scanning,               \* the readers whose native scan() has resolved
    pending,                \* startScanSession calls awaiting the native scan
    listeners,              \* the backend's listeners: event name -> sequence
    handles,                \* listener handles given out: <<event, callback>>
    session,                \* (bridge backends) the course of the scan session
    simpleNfc,              \* <<>>, or <<scanCallback>> of the SimpleNfc built
    tag,                    \* the NDEF message on the tag in the field: native records
    last                    \* what the last step did and how it settled

env == <<userAgent, nativeNfcBridge, nativeAndroidNfcBridge, NDEFReader>>
facadeVars == <<nfc, implementation, nfcListeners>>
backendVars == <<isBridgeAvailable, bridge, nfcSupported, iosInfo,
                 scanSessionActive, scanOnce, ndefReader, readers, scanning,
                 pending,
                 listeners>>
vars == <<env, facadeVars, backendVars, handles, session, simpleNfc, tag, last>>

----------------------------------------------------------------------------
(* Bounds of the model.                                                    *)

MaxListeners == 2
MaxReaders == 2

----------------------------------------------------------------------------
(* JavaScript values.                                                      *)

Null == <<>>
Some(x) == <<x>>

\* obj[key] read as a condition: a missing property is undefined, hence falsy.
Truthy(obj, key) == key \in DOMAIN obj /\ obj[key] = TRUE

----------------------------------------------------------------------------
(* User agents, as seen by the regular expressions of the detectors.       *)
(*   iosToken      /iphone|ipad|ipod/i                                     *)
(*   osVersion     /OS (\d+)_(\d+)_?(\d+)?/  : <<>> or <<major, minor>>    *)
(*   androidToken  /android/i                                              *)
(*   androidVersion /Android (\d+)(?:\.(\d+))?/ : <<>>, <<major>> or       *)
(*                 <<major, minor>>                                        *)
(*   shellToken    /(capacitor|cordova)/i                                  *)
(*   wvToken       /wv/i                                                   *)

UA(i, o, a, v, s, w) ==
    [iosToken |-> i, osVersion |-> o, androidToken |-> a,
     androidVersion |-> v, shellToken |-> s, wvToken |-> w]

Desktop == UA(FALSE, <<>>, FALSE, <<>>, FALSE, FALSE)
IPhone == UA(TRUE, <<14, 2>>, FALSE, <<>>, FALSE, FALSE)
AndroidChrome == UA(FALSE, <<>>, TRUE, <<10>>, FALSE, FALSE)
AndroidWebView == UA(FALSE, <<>>, TRUE, <<10>>, FALSE, TRUE)
AndroidOldShell == UA(FALSE, <<>>, TRUE, <<3, 2>>, TRUE, FALSE)
IPhoneLikeAndroid == UA(TRUE, <<14, 2>>, TRUE, <<10>>, FALSE, TRUE)
ShellNoPlatform == UA(FALSE, <<14, 2>>, FALSE, <<>>, TRUE, TRUE)

UserAgents ==
    {Desktop, IPhone, AndroidChrome, AndroidWebView, AndroidOldShell,
     IPhoneLikeAndroid, ShellNoPlatform}

----------------------------------------------------------------------------
(* Capability detectors.                                                   *)

IOS_MIN_VERSION == 11
ANDROID_MIN_VERSION == 4

\* a variant that keeps the major component only
parseVersionMajorOnly(major, minor) == major * 10

\* parseInt(major) + parseInt(minor) / 10, in tenths
parseVersion(major, minor) == major * 10 + minor

\* a variant that parses the version before it tests the platform
getIosSupportInfoParsesFirst(ua) ==
    LET version == IF ua.osVersion = <<>> THEN Null
                   ELSE Some(parseVersion(ua.osVersion[1], ua.osVersion[2]))
    IN [isIos |-> ua.iosToken,
        version |-> version,
        supportsNfc |-> version # Null /\ version[1] >= IOS_MIN_VERSION * 10,
        requiresNative |-> ua.iosToken]

getIosSupportInfo(ua) ==
    IF ~ua.iosToken
    THEN [isIos |-> FALSE, version |-> Null, supportsNfc |-> FALSE,
          requiresNative |-> FALSE]
    ELSE LET version == IF ua.osVersion = <<>> THEN Null
                        ELSE Some(parseVersion(ua.osVersion[1], ua.osVersion[2]))
         IN [isIos |-> TRUE,
             version |-> version,
             supportsNfc |-> version # Null /\ version[1] >= IOS_MIN_VERSION * 10,
             requiresNative |-> TRUE]

\* a variant that trusts an Android device whose version it cannot read
getAndroidSupportInfoTrusting(ua) ==
    IF ~ua.androidToken
    THEN [isAndroid |-> FALSE, version |-> Null, supportsNfc |-> FALSE]
    ELSE LET m == ua.androidVersion
             version == IF m = <<>> THEN Null
                        ELSE Some(parseVersion(m[1], IF Len(m) > 1 THEN m[2] ELSE 0))
         IN [isAndroid |-> TRUE,
             version |-> version,
             supportsNfc |-> version = Null \/ version[1] >= ANDROID_MIN_VERSION * 10]

getAndroidSupportInfo(ua) ==
    IF ~ua.androidToken
    THEN [isAndroid |-> FALSE, version |-> Null, supportsNfc |-> FALSE]
    ELSE LET m == ua.androidVersion
             version == IF m = <<>> THEN Null
                        ELSE Some(parseVersion(m[1], IF Len(m) > 1 THEN m[2] ELSE 0))
         IN [isAndroid |-> TRUE,
             version |-> version,
             supportsNfc |-> version # Null /\ version[1] >= ANDROID_MIN_VERSION * 10]

shouldUseNativeBridge(ua) ==
    LET androidInfo == getAndroidSupportInfo(ua)
        isWebView == ua.shellToken \/ (ua.androidToken /\ ua.wvToken)
    IN IF ~androidInfo.isAndroid THEN FALSE
       ELSE isWebView /\ androidInfo.supportsNfc

----------------------------------------------------------------------------
(* The version token of a user agent.  The text that follows "OS " or      *)
(* "Android " is the sequence of its pieces: runs of digits, separators    *)
(* and other characters; <<>> when nothing follows.                        *)

Digits == {"0", "1", "2", "3", "4", "9", "10", "11", "14", "15"}

\* parseInt(piece, 10) of a run of digits
parseInt(piece) ==
    CASE piece = "0" -> 0 [] piece = "1" -> 1 [] piece = "2" -> 2
      [] piece = "3" -> 3 [] piece = "4" -> 4 [] piece = "9" -> 9
      [] piece = "10" -> 10 [] piece = "11" -> 11 [] piece = "14" -> 14
      [] piece = "15" -> 15

VersionTexts ==
    {<<>>, <<"X">>,
     <<"14", ".", "2">>, <<"14">>, <<"4", ".", "0">>, <<"4">>, <<"3", ".", "9">>,
     <<"3">>,
     <<"14", "_", "2", "_", "1">>, <<"14", "_", "2">>, <<"11", "_", "0">>,
     <<"10", "_", "9">>, <<"10", "_", "15">>, <<"3", ".", "10">>}

\* the piece at position i is a run of digits
digitsAt(text, i) == Len(text) >= i /\ text[i] \in Digits

\* userAgent.match(/OS (\d+)_(\d+)_?(\d+)?/): <<>> or <<major, minor>>
matchOs(text) ==
    IF digitsAt(text, 1) /\ Len(text) >= 2 /\ text[2] = "_" /\ digitsAt(text, 3)
    THEN <<parseInt(text[1]), parseInt(text[3])>>
    ELSE <<>>

\* userAgent.match(/Android (\d+)(?:\.(\d+))?/): <<>>, <<major>> or
\* <<major, minor>>
matchAndroid(text) ==
    IF ~digitsAt(text, 1) THEN <<>>
    ELSE IF Len(text) >= 2 /\ text[2] = "." /\ digitsAt(text, 3)
    THEN <<parseInt(text[1]), parseInt(text[3])>>
    ELSE <<parseInt(text[1])>>

----------------------------------------------------------------------------
(* Host bridge objects.  A bridge object is the set of the function names  *)
(* it exposes; a global slot holds <<>> (undefined) or <<object>>.         *)

PartialBridge == {"isNfcEnabled"}
CoreBridge == {"isNfcEnabled", "startNfcScan"}
FullBridge ==
    {"isNfcEnabled", "startNfcScan", "stopNfcScan", "writeNfcTag",
     "makeNfcTagReadOnly", "formatNfcTag", "eraseNfcTag", "shareNfcData",
     "stopNfcSharing", "openSettings", "openNfcSettings"}

Slots == {Null, Some(PartialBridge), Some(CoreBridge), Some(FullBridge)}

\* window.<slot> || {}
slotOrEmpty(slot) == IF slot = Null THEN {} ELSE slot[1]

\* !!(this.bridge.isNfcEnabled && this.bridge.startNfcScan)
bridgeAvailable(b) == "isNfcEnabled" \in b /\ "startNfcScan" \in b

----------------------------------------------------------------------------
(* Errors.  kind "error" is an object with a name and a message, kind      *)
(* "string" a primitive (its .name and .message are undefined), kind       *)
(* "null" is null or undefined (reading a property of it throws).          *)

NOT_SUPPORTED == "not_supported"
NOT_ENABLED == "not_enabled"
PERMISSION_DENIED == "permission_denied"
UNEXPECTED_ERROR == "unexpected_error"

Err(name, message) ==
    [kind |-> "error", name |-> name, message |-> message, code |-> Null]
NullValue == [kind |-> "null", name |-> "", message |-> <<>>, code |-> Null]
StringValue == [kind |-> "string", name |-> "", message |-> <<>>, code |-> Null]

\* new Error(message)
NewError(message) == Err("Error", message)

\* the TypeError raised by reading a property of null or undefined
PropertyOfNull == Err("TypeError", <<"Cannot", "read", "properties", "of", "null">>)
\* the TypeError raised by calling or constructing undefined
NotAFunction == Err("TypeError", <<"is", "not", "a", "function">>)

\* message.includes(pattern)
Includes(message, pattern) ==
    \E i \in 1..(Len(message) - Len(pattern) + 1) :
        SubSeq(message, i, i + Len(pattern) - 1) = pattern

\* what the native side may reject a call with
NativeRejections ==
    {NullValue, StringValue,
     Err("NotAllowedError", <<"denied">>),
     Err("NotSupportedError", <<"unavailable">>),
     Err("NotAllowedError", <<"scan", "not", "supported">>),
     Err("Error", <<"permission", "not", "enabled">>),
     Err("Error", <<"NFC", "not", "enabled">>),
     Err("Error", <<>>)}

BridgeScanUnavailable ==
    NewError(<<"NFC", "scan", "cannot", "be", "started", "bridge", "not", "available">>)

IosScanUnsupported ==
    NewError(<<"NFC", "reading", "is", "not", "supported", "in", "web", "browsers",
               "on", "iOS", "To", "use", "NFC", "on", "iOS", "you", "need", "a",
               "native", "app", "implementation">>)

ScanPermissionDenied ==
    NewError(<<"NFC", "permission", "denied", "Please", "allow", "NFC", "scanning",
               "when", "prompted">>)

ScanNotSupported ==
    NewError(<<"NFC", "is", "not", "supported", "on", "this", "device", "or",
               "browser">>)

\* `Failed to start NFC scan: ${error.message || "Unknown error"}`
ScanFailed(message) ==
    NewError(<<"Failed", "to", "start", "NFC", "scan">> \o
             (IF message = <<>> THEN <<"Unknown", "error">> ELSE message))

\* WebNfc.createCompatibilityError
createCompatibilityError(info) ==
    IF info # Null /\ info[1].isIos
    THEN NewError(<<"iOS", "browsers", "don't", "support", "the", "Web", "NFC",
                    "API", "To", "use", "NFC", "on", "iOS", "you", "need", "a",
                    "native", "app", "implementation">>)
    ELSE NewError(<<"Web", "NFC", "API", "is", "not", "supported", "in", "this",
                    "browser", "NFC", "Web", "API", "requires", "Chrome", "89+",
                    "on", "Android", "with", "NFC", "hardware", "running", "over",
                    "HTTPS">>)

----------------------------------------------------------------------------
(* The facade's classification of an error of startScanSession.            *)

\* error.message?.includes(pattern)
messageIncludes(error, pattern) ==
    error.kind = "error" /\ Includes(error.message, pattern)

classify(error) ==
    IF messageIncludes(error, <<"not", "supported">>) \/ error.name = "NotSupportedError"
    THEN NOT_SUPPORTED
    ELSE IF messageIncludes(error, <<"permission">>) \/ error.name = "NotAllowedError"
    THEN PERMISSION_DENIED
    ELSE IF messageIncludes(error, <<"not", "enabled">>)
    THEN NOT_ENABLED
    ELSE UNEXPECTED_ERROR

\* the catch block of Nfc.startScanSession: what it throws for `error`
standardize(error) ==
    IF error.kind = "null"
    THEN PropertyOfNull
    ELSE [kind |-> "error",
          name |-> "Error",
          message |-> IF error.message # <<>> THEN error.message
                      ELSE <<"Failed", "to", "start", "NFC", "scan">>,
          code |-> Some(classify(error))]

----------------------------------------------------------------------------
(* Events, callbacks and the record of the last step.                      *)

Events == {"tagDetected", "nfcStatusChanged"}
Callbacks == {"f", "g"}
\* the arrow function Nfc.monitorNfcStatus registers with the backend
Monitor == "monitor"

Bridges == {"IosBridgeNfc", "AndroidBridgeNfc"}
Backends == Bridges \cup {"WebNfc"}

NoCalls == [c \in Callbacks |-> 0]

\* a settled call
Resolved == [outcome |-> "resolved", enabled |-> Null, raised |-> Null, err |-> Null]
ResolvedWith(enabled) == [Resolved EXCEPT !.enabled = Some(enabled)]
Rejected(e) == [outcome |-> "rejected", enabled |-> Null, raised |-> Some(e), err |-> Some(e)]

\* op: the operation, event or change of the step; arg: its arguments and
\* the behaviour of the native side, a tuple of strings;
\* target: the backend that served it; outcome, enabled, raised, err: how the
\* call settled (raised: what the backend threw; err: what the caller got);
\* called: the native functions invoked; invoked: calls of each callback;
\* input: the message a caller passed, or the reader an event came from;
\* data: what was handed to the native side or to the listeners (both <<>>
\* when the step has none).
Step(op, arg, target, result, called, invoked) ==
    [op |-> op, arg |-> arg, target |-> target, outcome |-> result.outcome,
     enabled |-> result.enabled, raised |-> result.raised, err |-> result.err,
     called |-> called, invoked |-> invoked, input |-> Null, data |-> Null]

None == [outcome |-> "none", enabled |-> Null, raised |-> Null, err |-> Null]

\* a step that carries a message
StepIO(op, arg, target, result, called, invoked, input, data) ==
    [Step(op, arg, target, result, called, invoked) EXCEPT !.input = input, !.data = data]

----------------------------------------------------------------------------
(* Construction.                                                           *)

Init ==
    /\ userAgent \in UserAgents
    /\ nativeNfcBridge \in Slots
    /\ nativeAndroidNfcBridge \in Slots
    /\ NDEFReader \in BOOLEAN
    /\ nfc = FALSE
    /\ implementation = "none"
    /\ nfcListeners = [e \in Events |-> {}]
    /\ isBridgeAvailable = FALSE
    /\ bridge = {}
    /\ nfcSupported = FALSE
    /\ iosInfo = Null
    /\ scanSessionActive = FALSE
    /\ scanOnce = FALSE
    /\ ndefReader = 0
    /\ readers = 0
    /\ scanning = {}
    /\ pending = {}
    /\ listeners = [e \in Events |-> <<>>]
    /\ handles = {}
    /\ session = "none"
    /\ simpleNfc = <<>>
    /\ tag = <<>>
    /\ last = Step("init", <<>>, "none", None, {}, NoCalls)

\* the global slot a bridge backend reads
slotOf(class) ==
    IF class = "IosBridgeNfc" THEN nativeNfcBridge ELSE nativeAndroidNfcBridge

\* WebNfc.detectNfcSupport: the value of nfcSupported
detectNfcSupport(ua, reader) ==
    IF getIosSupportInfo(ua).isIos THEN FALSE ELSE reader

\* new IosBridgeNfc(), new AndroidBridgeNfc(), new WebNfc(): the fields
Construct(class) ==
    /\ implementation' = class
    /\ bridge' = IF class \in Bridges THEN slotOrEmpty(slotOf(class)) ELSE {}
    /\ isBridgeAvailable' = (class \in Bridges /\ bridgeAvailable(bridge'))
    /\ iosInfo' = IF class = "WebNfc" THEN Some(getIosSupportInfo(userAgent)) ELSE Null
    /\ nfcSupported' = (class = "WebNfc" /\ detectNfcSupport(userAgent, NDEFReader))
    /\ UNCHANGED <<tag, scanSessionActive, scanOnce, ndefReader, readers, scanning,
                   pending, handles, session, env>>

\* a variant that takes the iOS bridge only when the injected object is complete
selectCompleteBridgeOnly(ua, iosSlot) ==
    IF getIosSupportInfo(ua).isIos /\ bridgeAvailable(slotOrEmpty(iosSlot))
    THEN "IosBridgeNfc"
    ELSE "WebNfc"

\* the backend class chosen by the constructor of Nfc
select(ua, iosSlot) ==
    LET ios == getIosSupportInfo(ua)
        androidInfo == getAndroidSupportInfo(ua)
    IN IF ios.isIos /\ iosSlot # Null
       THEN "IosBridgeNfc"
       ELSE IF androidInfo.isAndroid /\ Truthy(androidInfo, "useNativeBridge")
       THEN "AndroidBridgeNfc"
       ELSE "WebNfc"

\* new Nfc(): binds a backend and subscribes to its status events
NewNfc ==
    /\ implementation = "none"
    /\ nfc' = TRUE
    /\ Construct(select(userAgent, nativeNfcBridge))
    /\ listeners' = [listeners EXCEPT !["nfcStatusChanged"] = <<Monitor>>]
    /\ UNCHANGED <<nfcListeners, simpleNfc>>
    /\ last' = Step("new", <<"Nfc">>, implementation', None, {}, NoCalls)

\* a backend constructed on its own
NewBackend(class) ==
    /\ implementation = "none"
    /\ Construct(class)
    /\ UNCHANGED <<nfc, nfcListeners, listeners, simpleNfc>>
    /\ last' = Step("new", <<class>>, class, None, {}, NoCalls)

----------------------------------------------------------------------------
(* isEnabled.                                                              *)

WebNfc_isEnabled ==
    IF iosInfo # Null /\ iosInfo[1].isIos
    THEN ResolvedWith(FALSE)
    ELSE ResolvedWith(nfcSupported)

\* a variant without the try/catch around the native call
Bridge_isEnabledRethrows(native) ==
    IF ~isBridgeAvailable THEN ResolvedWith(FALSE)
    ELSE IF "isNfcEnabled" \notin bridge THEN Rejected(NotAFunction)
    ELSE IF native = "reject" THEN Rejected(NewError(<<"native", "failure">>))
    ELSE ResolvedWith(native = "true")

\* native: "true", "false" (the bridge resolves) or "reject"
Bridge_isEnabled(native) ==
    IF ~isBridgeAvailable THEN ResolvedWith(FALSE)
    ELSE IF "isNfcEnabled" \notin bridge \/ native = "reject" THEN ResolvedWith(FALSE)
    ELSE ResolvedWith(native = "true")

\* a variant that chooses the backend again at every call
ImplReselected == IF nfc THEN select(userAgent, nativeNfcBridge) ELSE implementation

\* the backend this.implementation refers to
Impl == implementation

\* Nfc.isEnabled over the backend's result
Nfc_isEnabled(result) ==
    IF result.outcome = "rejected" THEN ResolvedWith(FALSE) ELSE result

IsEnabled ==
    /\ implementation # "none"
    /\ \E native \in {"true", "false", "reject"} :
        LET callsNative == Impl \in Bridges /\ isBridgeAvailable
            result == IF Impl = "WebNfc" THEN WebNfc_isEnabled
                      ELSE Bridge_isEnabled(native)
        IN /\ Impl = "WebNfc" => native = "true"
           /\ ~callsNative => native = "true"
           /\ last' = Step("isEnabled", IF callsNative THEN <<native>> ELSE <<>>, Impl,
                           IF nfc THEN Nfc_isEnabled(result) ELSE result,
                           IF callsNative THEN {"isNfcEnabled"} ELSE {}, NoCalls)
    /\ UNCHANGED <<tag, env, facadeVars, backendVars, handles, session, simpleNfc>>

----------------------------------------------------------------------------
(* startScanSession.                                                       *)

Awaiting == [outcome |-> "pending", enabled |-> Null, raised |-> Null, err |-> Null]

\* Nfc.startScanSession over the backend's result
Nfc_startScanSession(result) ==
    IF result.outcome = "rejected"
    THEN [result EXCEPT !.err = Some(standardize(result.raised[1]))]
    ELSE result

\* what the caller of startScanSession gets
Surfaced(result) == IF nfc THEN Nfc_startScanSession(result) ELSE result

\* a variant without the test of nfcSupported
WebNfc_cannotScanIosOnly ==
    IF iosInfo # Null /\ iosInfo[1].isIos THEN Some(IosScanUnsupported) ELSE Null

\* WebNfc.startScanSession refuses before touching any state
WebNfc_cannotScan ==
    IF iosInfo # Null /\ iosInfo[1].isIos THEN Some(IosScanUnsupported)
    ELSE IF ~nfcSupported THEN Some(createCompatibilityError(iosInfo))
    ELSE Null

\* the catch block of WebNfc.startScanSession: what it throws for `error`
WebNfc_scanError(error) ==
    IF error.kind = "null" THEN PropertyOfNull
    ELSE IF error.name = "NotAllowedError" THEN ScanPermissionDenied
    ELSE IF error.name = "NotSupportedError" THEN ScanNotSupported
    ELSE ScanFailed(error.message)

WebNfc_startScanSession(once) ==
    IF WebNfc_cannotScan # Null
    THEN /\ last' = Step("startScanSession", <<>>, Impl,
                         Surfaced(Rejected(WebNfc_cannotScan[1])), {}, NoCalls)
         /\ UNCHANGED <<scanSessionActive, scanOnce, ndefReader, readers, pending>>
    ELSE IF ~NDEFReader
    THEN \* new window.NDEFReader() throws: the catch block runs
         /\ scanSessionActive' = FALSE
         /\ scanOnce' = once
         /\ last' = Step("startScanSession", <<>>, Impl,
                         Surfaced(Rejected(WebNfc_scanError(NotAFunction))), {}, NoCalls)
         /\ UNCHANGED <<ndefReader, readers, pending>>
    ELSE /\ readers < MaxReaders
         /\ scanSessionActive' = TRUE
         /\ scanOnce' = once
         /\ readers' = readers + 1
         /\ ndefReader' = readers + 1
         /\ pending' = pending \cup {readers + 1}
         /\ last' = Step("startScanSession", IF once THEN <<"once">> ELSE <<>>, Impl,
                         Awaiting, {"NDEFReader", "scan"}, NoCalls)

\* the options go to the native side as they are: the backend keeps nothing
Bridge_startScanSession(once) ==
    IF ~isBridgeAvailable
    THEN /\ last' = Step("startScanSession", <<>>, Impl,
                         Surfaced(Rejected(BridgeScanUnavailable)), {}, NoCalls)
         /\ UNCHANGED <<pending, session>>
    ELSE /\ 0 \notin pending
         /\ pending' = pending \cup {0}
         /\ session' = IF once THEN "askingOnce" ELSE "asking"
         /\ last' = Step("startScanSession", IF once THEN <<"once">> ELSE <<>>, Impl,
                         Awaiting, {"startNfcScan"}, NoCalls)

\* this.implementation.startScanSession(options), up to the native call
Impl_startScanSession(once) ==
    IF Impl = "WebNfc"
    THEN WebNfc_startScanSession(once) /\ UNCHANGED session
    ELSE /\ Bridge_startScanSession(once)
         /\ UNCHANGED <<scanSessionActive, scanOnce, ndefReader, readers>>

StartScanSessionWith(once) ==
    /\ implementation # "none"
    /\ Impl_startScanSession(once)
    /\ UNCHANGED <<tag, env, facadeVars, isBridgeAvailable, bridge, nfcSupported,
                   iosInfo, scanning, listeners, handles, simpleNfc>>

\* the callers of a bridge backend pass no once here
StartScanSession ==
    \E once \in BOOLEAN : (Impl \in Bridges => ~once) /\ StartScanSessionWith(once)

\* the course of a bridge backend's session: "none", "asking" and
\* "askingOnce" (startNfcScan called, with once or without), "scan" and
\* "once" (it resolved), "onceDone" (a once session has had its tag),
\* "stopped" (stopScanSession was called)
armed(s) ==
    IF s = "asking" THEN "scan" ELSE IF s = "askingOnce" THEN "once" ELSE s
refused(s) == IF s \in {"asking", "askingOnce"} THEN "none" ELSE s
heard(s, event) == IF s = "once" /\ event = <<"tagDetected">> THEN "onceDone" ELSE s

\* the native scan of call r resolves
ScanResolves ==
    /\ \E r \in pending :
        /\ pending' = pending \ {r}
        /\ scanning' = IF Impl = "WebNfc" THEN scanning \cup {r} ELSE scanning
        /\ session' = IF Impl = "WebNfc" THEN session ELSE armed(session)
        /\ last' = Step("startScanSession", <<>>, Impl, Resolved, {}, NoCalls)
    /\ UNCHANGED <<tag, env, facadeVars, isBridgeAvailable, bridge, nfcSupported,
                   iosInfo, scanSessionActive, scanOnce, ndefReader, readers,
                   listeners, handles, simpleNfc>>

\* the native scan of call r rejects with e
ScanRejects ==
    /\ \E r \in pending, e \in NativeRejections :
        /\ pending' = pending \ {r}
        /\ scanSessionActive' = IF Impl = "WebNfc" THEN FALSE ELSE scanSessionActive
        /\ session' = IF Impl = "WebNfc" THEN session ELSE refused(session)
        /\ last' = Step("startScanSession", <<>>, Impl,
                        Surfaced(Rejected(IF Impl = "WebNfc" THEN WebNfc_scanError(e)
                                          ELSE e)),
                        {}, NoCalls)
    /\ UNCHANGED <<tag, env, facadeVars, isBridgeAvailable, bridge, nfcSupported,
                   iosInfo, scanOnce, ndefReader, readers, scanning, listeners,
                   handles, simpleNfc>>

----------------------------------------------------------------------------
(* stopScanSession.                                                        *)

\* this.ndefReader.abort: "absent", "returns" or "throws"
AbortBehaviours == {"absent", "returns", "throws"}

\* a variant that only aborts the reader
WebNfc_stopFlagUntouched(active) == active

\* the value WebNfc.stopScanSession leaves in scanSessionActive
WebNfc_stopFlag(active) == FALSE

\* WebNfc.stopScanSession: the native functions it calls
WebNfc_stopCalls(abort) == IF ndefReader # 0 /\ abort # "absent" THEN {"abort"} ELSE {}

WebNfc_stopScanSession(abort) == Resolved

\* the native functions a bridge backend's stopScanSession calls
Bridge_stopCalls == IF isBridgeAvailable /\ "stopNfcScan" \in bridge THEN {"stopNfcScan"} ELSE {}

\* a variant without the try/catch around the native call
Bridge_stopRethrows(native) ==
    IF native = "reject" THEN Rejected(NewError(<<"native", "failure">>)) ELSE Resolved

\* native: "resolve" or "reject", what this.bridge.stopNfcScan does
Bridge_stopScanSession(native) == Resolved

StopScanSession ==
    /\ implementation # "none"
    /\ IF Impl = "WebNfc"
       THEN \E abort \in AbortBehaviours :
            /\ ndefReader = 0 => abort = "absent"
            /\ scanSessionActive' = WebNfc_stopFlag(scanSessionActive)
            /\ UNCHANGED session
            /\ last' = Step("stopScanSession", <<abort>>, Impl, WebNfc_stopScanSession(abort),
                            WebNfc_stopCalls(abort), NoCalls)
       ELSE \E native \in {"resolve", "reject"} :
            /\ Bridge_stopCalls = {} => native = "resolve"
            /\ UNCHANGED scanSessionActive
            /\ session' = "stopped"
            /\ last' = Step("stopScanSession", <<native>>, Impl, Bridge_stopScanSession(native),
                            Bridge_stopCalls, NoCalls)
    /\ UNCHANGED <<tag, env, facadeVars, isBridgeAvailable, bridge, nfcSupported,
                   iosInfo, scanOnce, ndefReader, readers, scanning, pending,
                   listeners, handles, simpleNfc>>

----------------------------------------------------------------------------
(* Records.  A string is the sequence of its pieces: the characters of a   *)
(* text, or the tokens of a type name that the code never looks inside.    *)
(* "" is <<>>, which is falsy as in JavaScript.                            *)

MaxTextLen == 1

\* the characters of the texts: one of one byte and one of two in UTF-8
Chars == {"a", "e-acute"}

\* the strings of at most n characters
StringsUpTo(n) == UNION {[1..k -> Chars] : k \in 0..n}
Strings == StringsUpTo(MaxTextLen)

\* the UTF-8 bytes the browser stores for a string given as record data
RECURSIVE encode(_)
encode(str) ==
    IF str = <<>> THEN <<>>
    ELSE (IF Head(str) = "a" THEN <<97>> ELSE <<195, 169>>) \o encode(Tail(str))

\* new TextDecoder().decode(bytes): an ill-formed byte decodes to U+FFFD
RECURSIVE decode(_)
decode(bytes) ==
    IF bytes = <<>> THEN <<>>
    ELSE IF bytes[1] = 97 THEN <<"a">> \o decode(Tail(bytes))
    ELSE IF Len(bytes) >= 2 /\ bytes[1] = 195 /\ bytes[2] = 169
    THEN <<"e-acute">> \o decode(Tail(Tail(bytes)))
    ELSE <<"U+FFFD">> \o decode(Tail(bytes))

\* NfcTnf
EMPTY == 0
WELL_KNOWN == 1
MIME_MEDIA == 2
ABSOLUTE_URI == 3
EXTERNAL_TYPE == 4

\* NfcRtd.TEXT, NfcRtd.URI
TEXT == <<"T">>
URI == <<"U">>

\* WebNfc.mapRecordTypeToTnf
mapRecordTypeToTnf(recordType) ==
    IF recordType = <<>> THEN EMPTY
    ELSE IF recordType = <<"text">> \/ recordType = <<"url">> THEN WELL_KNOWN
    ELSE IF \E i \in 1..Len(recordType) : recordType[i] = "/" THEN MIME_MEDIA
    ELSE IF recordType[1] = "urn:" THEN ABSOLUTE_URI
    ELSE EXTERNAL_TYPE

\* NfcUtils.createTextRecord(text, languageCode)
createTextRecord(text, languageCode) ==
    [id |-> <<>>, tnf |-> WELL_KNOWN, type |-> TEXT, payload |-> text,
     languageCode |-> languageCode, text |-> text, uri |-> <<>>]

\* NfcUtils.createUriRecord(uri)
createUriRecord(uri) ==
    [id |-> <<>>, tnf |-> WELL_KNOWN, type |-> URI, payload |-> uri,
     languageCode |-> <<>>, text |-> <<>>, uri |-> uri]

\* a || b
Or(a, b) == IF a # <<>> THEN a ELSE b

\* a variant of the mapping that never sets the language
recordOptionsWithoutLang(record) ==
    IF record.type = TEXT
    THEN [recordType |-> <<"text">>, data |-> Or(record.payload, record.text), lang |-> <<>>]
    ELSE IF record.type = URI
    THEN [recordType |-> <<"url">>, data |-> Or(record.payload, record.uri), lang |-> <<>>]
    ELSE [recordType |-> record.type, data |-> record.payload, lang |-> <<>>]

\* the callback of options.message.records.map in WebNfc.write
recordOptions(record) ==
    IF record.type = TEXT
    THEN [recordType |-> <<"text">>,
          data |-> Or(record.payload, record.text),
          lang |-> record.languageCode]
    ELSE IF record.type = URI
    THEN [recordType |-> <<"url">>, data |-> Or(record.payload, record.uri), lang |-> <<>>]
    ELSE [recordType |-> record.type, data |-> record.payload, lang |-> <<>>]

\* a variant that emits the records last to first
writeRecordsReversed(records) ==
    [i \in 1..Len(records) |-> recordOptions(records[Len(records) + 1 - i])]

\* options.message.records.map(...): the argument of writer.write
writeRecords(records) == [i \in 1..Len(records) |-> recordOptions(records[i])]

\* the record a tag holds once the browser has written the options: the
\* data as bytes
stored(options) ==
    [recordType |-> options.recordType, data |-> Some(encode(options.data)),
     lang |-> options.lang]

\* a variant that reads url records as other records
parseRecordNoUri(record) ==
    LET decoded == IF record.data = Null THEN <<>> ELSE decode(record.data[1])
    IN [id |-> <<>>,
        tnf |-> mapRecordTypeToTnf(record.recordType),
        type |-> record.recordType,
        payload |-> decoded,
        languageCode |-> Or(record.lang, <<"en">>),
        text |-> IF record.recordType = <<"text">> THEN decoded ELSE <<>>,
        uri |-> <<>>]

\* the body of the loop of WebNfc.parseNdefReading: one native record
parseRecord(record) ==
    LET decoded == IF record.data = Null THEN <<>> ELSE decode(record.data[1])
    IN [id |-> <<>>,
        tnf |-> mapRecordTypeToTnf(record.recordType),
        type |-> record.recordType,
        payload |-> decoded,
        languageCode |-> Or(record.lang, <<"en">>),
        text |-> IF record.recordType = <<"text">> THEN decoded ELSE <<>>,
        uri |-> IF record.recordType = <<"url">> THEN decoded ELSE <<>>]

\* WebNfc.parseNdefReading: the messages of the TagDetectedEvent
parseNdefReading(records) ==
    IF Len(records) > 0
    THEN <<[i \in 1..Len(records) |-> parseRecord(records[i])]>>
    ELSE <<>>

\* JSON.stringify(options) of a bridge backend's write: the records in
\* order, each as its members in order, an empty languageCode left out
stringify(records) ==
    [i \in 1..Len(records) |->
        <<"type", records[i].type, "payload", records[i].payload>>
        \o (IF records[i].languageCode = <<>> THEN <<>>
            ELSE <<"languageCode", records[i].languageCode>>)
        \o <<"text", records[i].text, "uri", records[i].uri>>]

----------------------------------------------------------------------------
(* write.                                                                  *)

Langs == {<<>>, <<"fr">>}

\* text records as createTextRecord builds them (languageCode <<>>: a
\* literal without the member) and literals that carry the text only
TextRecords ==
    {createTextRecord(t, l) : t \in Strings, l \in Langs}
    \cup {[createTextRecord(t, <<>>) EXCEPT !.payload = <<>>] : t \in Strings}

UriRecords == {createUriRecord(u) : u \in Strings}

OtherRecords ==
    {[id |-> <<>>, tnf |-> MIME_MEDIA, type |-> <<"application", "/", "json">>,
      payload |-> <<"a">>, languageCode |-> <<>>, text |-> <<>>, uri |-> <<>>]}

Records == TextRecords \cup UriRecords \cup OtherRecords

\* the records of the messages of two records
PairRecords == {createTextRecord(<<"a">>, <<>>), createUriRecord(<<"e-acute">>)}

\* options.message.records of a write: no record, any one record, or two
WriteMessages ==
    {<<>>} \cup {<<r>> : r \in Records} \cup {<<r, q>> : r, q \in PairRecords}

\* the message the browser leaves on the tag for the argument of writer.write
storedRecords(options) == [i \in 1..Len(options) |-> stored(options[i])]

\* what a native write, share or tag operation can reject with
Failures ==
    {NullValue,
     Err("NotAllowedError", <<"denied">>),
     Err("NotSupportedError", <<"unavailable">>),
     Err("Error", <<"tag", "lost">>)}

\* how the native side settles a call: <<>> when it resolves, <<e>> when it
\* rejects with e
Settlements == {Null} \cup {Some(e) : e \in Failures}

\* the argument of a step that called the native side
how(native) == IF native = Null THEN <<"resolve">> ELSE <<"reject">>

\* the result of a call whose native part settled with `native`, when the
\* backend rethrows what it caught
Settled(native) == IF native = Null THEN Resolved ELSE Rejected(native[1])

BridgeWriteUnavailable ==
    NewError(<<"NFC", "write", "is", "not", "supported", "bridge", "not", "available">>)

WritePermissionDenied ==
    NewError(<<"NFC", "write", "permission", "denied", "Please", "allow", "when",
               "prompted">>)

WriteNotSupported ==
    NewError(<<"NFC", "write", "is", "not", "supported", "on", "this", "device",
               "or", "browser">>)

\* `Failed to write to NFC tag: ${error.message || "Unknown error"}`
WriteFailed(message) ==
    NewError(<<"Failed", "to", "write", "to", "NFC", "tag">> \o
             (IF message = <<>> THEN <<"Unknown", "error">> ELSE message))

\* a variant whose catch block throws what it caught
WebNfc_writeRethrows(error) == error

\* the catch block of WebNfc.write: what it throws for `error`
WebNfc_writeError(error) ==
    IF error.kind = "null" THEN PropertyOfNull
    ELSE IF error.name = "NotAllowedError" THEN WritePermissionDenied
    ELSE IF error.name = "NotSupportedError" THEN WriteNotSupported
    ELSE WriteFailed(error.message)

\* WebNfc.write(options)
WebNfc_write(records, native) ==
    IF ~nfcSupported
    THEN StepIO("write", <<>>, Impl, Rejected(createCompatibilityError(iosInfo)),
                {}, NoCalls, Some(records), Null)
    ELSE IF ~NDEFReader
    THEN StepIO("write", <<>>, Impl, Rejected(WebNfc_writeError(NotAFunction)),
                {}, NoCalls, Some(records), Null)
    ELSE StepIO("write", how(native), Impl,
                IF native = Null THEN Resolved
                ELSE Rejected(WebNfc_writeError(native[1])),
                {"NDEFReader", "write"}, NoCalls, Some(records),
                Some(writeRecords(records)))

\* a variant that does nothing when the bridge cannot write
Bridge_writeSilent(records, native) ==
    IF ~isBridgeAvailable \/ "writeNfcTag" \notin bridge
    THEN StepIO("write", <<>>, Impl, Resolved, {}, NoCalls, Some(records), Null)
    ELSE StepIO("write", how(native), Impl, Settled(native),
                {"writeNfcTag"}, NoCalls, Some(records), Some(stringify(records)))

\* a variant that looks at the global slot again at every call
Bridge_writeRechecks(records, native) ==
    IF ~bridgeAvailable(slotOrEmpty(slotOf(Impl)))
       \/ "writeNfcTag" \notin slotOrEmpty(slotOf(Impl))
    THEN StepIO("write", <<>>, Impl, Rejected(BridgeWriteUnavailable),
                {}, NoCalls, Some(records), Null)
    ELSE StepIO("write", how(native), Impl, Settled(native),
                {"writeNfcTag"}, NoCalls, Some(records), Some(stringify(records)))

\* IosBridgeNfc.write(options), AndroidBridgeNfc.write(options)
Bridge_write(records, native) ==
    IF ~isBridgeAvailable \/ "writeNfcTag" \notin bridge
    THEN StepIO("write", <<>>, Impl, Rejected(BridgeWriteUnavailable),
                {}, NoCalls, Some(records), Null)
    ELSE StepIO("write", how(native), Impl, Settled(native),
                {"writeNfcTag"}, NoCalls, Some(records), Some(stringify(records)))

\* a variant of the facade that classifies every rejection it passes on
Nfc_returnClassified(step) ==
    IF nfc /\ step.outcome = "rejected"
    THEN [step EXCEPT !.err = Some(standardize(step.raised[1]))]
    ELSE step

\* `return this.implementation.<operation>(...)`: the facade's promise
\* settles as the backend's
Nfc_return(step) == step

\* Nfc.write({message: {records}}), or the backend's when there is no facade
WriteOf(records) ==
    /\ implementation # "none"
    /\ \E native \in Settlements :
        LET step == IF Impl = "WebNfc" THEN WebNfc_write(records, native)
                    ELSE Bridge_write(records, native)
        IN /\ step.called = {} => native = Null
           /\ last' = Nfc_return(step)
           /\ tag' = IF step.outcome = "resolved" /\ "write" \in step.called
                     THEN storedRecords(step.data[1])
                     ELSE tag
    /\ UNCHANGED <<env, facadeVars, backendVars, handles, session, simpleNfc>>

Write == \E records \in WriteMessages : WriteOf(records)

----------------------------------------------------------------------------
(* makeReadOnly, format, erase, share, stopSharing.                        *)

TagOperations == {"makeReadOnly", "format", "erase"}
ShareOperations == {"share", "stopSharing"}

\* the function of the Android bridge object an operation forwards to
nativeFunction(op) ==
    CASE op = "makeReadOnly" -> "makeNfcTagReadOnly"
      [] op = "format" -> "formatNfcTag"
      [] op = "erase" -> "eraseNfcTag"
      [] op = "share" -> "shareNfcData"
      [] op = "stopSharing" -> "stopNfcSharing"

\* "<op> is not implemented in the Android bridge"
AndroidNotImplemented(op) ==
    NewError(<<op, "is", "not", "implemented", "in", "the", "Android", "bridge">>)

\* "<op> is not implemented in the iOS bridge", "share is not supported in iOS"
IosNotImplemented(op) ==
    IF op \in ShareOperations
    THEN NewError(<<"share", "is", "not", "supported", "in", "iOS">>)
    ELSE NewError(<<op, "is", "not", "implemented", "in", "the", "iOS", "bridge">>)

WebNotSupported(op) ==
    IF op \in ShareOperations
    THEN NewError(<<"NFC", "sharing", "is", "not", "supported", "in", "the", "Web",
                    "NFC", "API">>)
    ELSE NewError(<<"makeReadOnly", "is", "not", "supported", "in", "the", "Web",
                    "NFC", "API">>)

\* `Failed to format NFC tag: ${error.message || "Unknown error"}`
FormatFailed(error) ==
    IF error.kind = "null" THEN PropertyOfNull
    ELSE NewError(<<"Failed", "to", "format", "NFC", "tag">> \o
                  (IF error.message = <<>> THEN <<"Unknown", "error">>
                   ELSE error.message))

\* a variant of format that succeeds without a reader constructor
WebNfc_formatLenient(op, native) ==
    IF ~nfcSupported
    THEN Step(op, <<>>, Impl, Rejected(createCompatibilityError(iosInfo)), {}, NoCalls)
    ELSE IF ~NDEFReader
    THEN Step(op, <<>>, Impl, Resolved, {}, NoCalls)
    ELSE StepIO(op, how(native), Impl,
                IF native = Null THEN Resolved ELSE Rejected(FormatFailed(native[1])),
                {"NDEFReader", "write"}, NoCalls, Null, Some(<<>>))

\* WebNfc.format, and WebNfc.erase which returns this.format()
WebNfc_format(op, native) ==
    IF ~nfcSupported
    THEN Step(op, <<>>, Impl, Rejected(createCompatibilityError(iosInfo)), {}, NoCalls)
    ELSE IF ~NDEFReader
    THEN Step(op, <<>>, Impl, Rejected(FormatFailed(NotAFunction)), {}, NoCalls)
    ELSE StepIO(op, how(native), Impl,
                IF native = Null THEN Resolved ELSE Rejected(FormatFailed(native[1])),
                {"NDEFReader", "write"}, NoCalls, Null, Some(<<>>))

\* a variant of the radio backend that lets share and stopSharing pass
WebNfc_refuseQuietly(op) ==
    IF ~nfcSupported
    THEN Step(op, <<>>, Impl, Rejected(createCompatibilityError(iosInfo)), {}, NoCalls)
    ELSE IF op \in ShareOperations THEN Step(op, <<>>, Impl, Resolved, {}, NoCalls)
    ELSE Step(op, <<>>, Impl, Rejected(WebNotSupported(op)), {}, NoCalls)

\* WebNfc.makeReadOnly, WebNfc.share, WebNfc.stopSharing
WebNfc_refuse(op) ==
    IF ~nfcSupported
    THEN Step(op, <<>>, Impl, Rejected(createCompatibilityError(iosInfo)), {}, NoCalls)
    ELSE Step(op, <<>>, Impl, Rejected(WebNotSupported(op)), {}, NoCalls)

\* the five operations of IosBridgeNfc
IosBridgeNfc_refuse(op) == Step(op, <<>>, Impl, Rejected(IosNotImplemented(op)), {}, NoCalls)

\* the five operations of AndroidBridgeNfc
AndroidBridgeNfc_forward(op, native) ==
    IF ~isBridgeAvailable \/ nativeFunction(op) \notin bridge
    THEN Step(op, <<>>, Impl, Rejected(AndroidNotImplemented(op)), {}, NoCalls)
    ELSE Step(op, how(native), Impl, Settled(native), {nativeFunction(op)}, NoCalls)

\* the facade's, or the backend's, operation op
Operation(op) ==
    /\ implementation # "none"
    /\ \E native \in Settlements :
        LET step ==
              IF Impl = "IosBridgeNfc" THEN IosBridgeNfc_refuse(op)
              ELSE IF Impl = "AndroidBridgeNfc" THEN AndroidBridgeNfc_forward(op, native)
              ELSE IF op \in {"format", "erase"} THEN WebNfc_format(op, native)
              ELSE WebNfc_refuse(op)
        IN /\ step.called = {} => native = Null
           /\ last' = Nfc_return(step)
           /\ tag' = IF step.outcome = "resolved" /\ "write" \in step.called
                     THEN storedRecords(step.data[1])
                     ELSE tag
    /\ UNCHANGED <<env, facadeVars, backendVars, handles, session, simpleNfc>>

MakeReadOnly == Operation("makeReadOnly")
Format == Operation("format")
Erase == Operation("erase")
Share == Operation("share")
StopSharing == Operation("stopSharing")

----------------------------------------------------------------------------
(* openSettings.                                                           *)

\* the function of the bridge object that openSettings forwards to
settingsFunction(class) ==
    IF class = "IosBridgeNfc" THEN "openSettings" ELSE "openNfcSettings"

BridgeSettingsUnavailable ==
    NewError(<<"NFC", "settings", "cannot", "be", "opened", "bridge", "not",
               "available">>)

\* WebNfc.openSettings: guidance by alert(), no native call that can reject
WebNfc_openSettings ==
    IF iosInfo # Null /\ iosInfo[1].isIos
    THEN Step("openSettings", <<>>, Impl, Resolved, {"alert"}, NoCalls)
    ELSE IF ~nfcSupported
    THEN Step("openSettings", <<>>, Impl, Rejected(createCompatibilityError(iosInfo)),
              {}, NoCalls)
    ELSE Step("openSettings", <<>>, Impl, Resolved, {"alert"}, NoCalls)

\* IosBridgeNfc.openSettings, AndroidBridgeNfc.openSettings
Bridge_openSettings(native) ==
    IF ~isBridgeAvailable \/ settingsFunction(Impl) \notin bridge
    THEN Step("openSettings", <<>>, Impl, Rejected(BridgeSettingsUnavailable), {}, NoCalls)
    ELSE Step("openSettings", how(native), Impl, Settled(native),
              {settingsFunction(Impl)}, NoCalls)

\* Nfc.openSettings, or the backend's when there is no facade
OpenSettings ==
    /\ implementation # "none"
    /\ \E native \in Settlements :
        LET step == IF Impl = "WebNfc" THEN WebNfc_openSettings
                    ELSE Bridge_openSettings(native)
        IN /\ (step.called \cap FullBridge = {}) => native = Null
           /\ last' = Nfc_return(step)
    /\ UNCHANGED <<tag, env, facadeVars, backendVars, handles, session, simpleNfc>>

----------------------------------------------------------------------------
(* Event dispatch.                                                         *)

\* the number of calls of callback c made by a loop `for (l of list) l(data)`
\* that the throwAt-th listener leaves by throwing (0: no listener throws)
calls(list, throwAt, c) ==
    LET n == IF throwAt = 0 THEN Len(list) ELSE throwAt
    IN Cardinality({i \in 1..n : list[i] = c})

\* Nfc.notifyListeners: every callback of the set is called, a throw is caught
notifyListeners(set, c) == IF c \in set THEN 1 ELSE 0

\* the listeners that may throw out of a backend's loop: the facade's own does not
ThrowPoints(list) == {0} \cup {i \in 1..Len(list) : list[i] # Monitor}

\* calls of each callback for one event handed to the backend's list
dispatch(list, throwAt, facadeSet) ==
    [c \in Callbacks |->
        calls(list, throwAt, c) + calls(list, throwAt, Monitor) * notifyListeners(facadeSet, c)]

\* the "reading" handler that WebNfc.startScanSession wires to reader r
Reading ==
    /\ Impl = "WebNfc"
    /\ \E r \in scanning, parsed \in BOOLEAN,
          throwAt \in ThrowPoints(listeners["tagDetected"]),
          abort \in AbortBehaviours :
        LET delivered == scanSessionActive /\ parsed
            stops == delivered /\ throwAt = 0 /\ scanOnce
        IN /\ ~delivered => throwAt = 0
           /\ ~stops => abort = "absent"
           /\ scanSessionActive' =
                 IF stops THEN WebNfc_stopFlag(scanSessionActive) ELSE scanSessionActive
           /\ last' = StepIO("reading", <<IF parsed THEN "tag" ELSE "malformed">>, Impl,
                             None,
                             IF stops THEN WebNfc_stopCalls(abort) ELSE {},
                             IF delivered
                             THEN dispatch(listeners["tagDetected"], throwAt,
                                           nfcListeners["tagDetected"])
                             ELSE NoCalls,
                             Some(r),
                             IF delivered THEN Some(parseNdefReading(tag)) ELSE Null)
    /\ UNCHANGED <<tag, env, facadeVars, isBridgeAvailable, bridge, nfcSupported,
                   iosInfo, scanOnce, ndefReader, readers, scanning, pending,
                   listeners, handles, session, simpleNfc>>

\* the shapes of an inbound window message
Messages == {"nfcTagDetected", "nfcStatusChanged", "other"}

\* more shapes: a status message with enabled false or null, a tag message
\* without a tag, a status message without enabled, data that is a string,
\* data that is null
InboundMessages ==
    Messages \cup {"statusDisabled", "statusNull", "tagMissing", "enabledMissing",
                   "text", "empty"}

\* event.data of a message: data is "object", "string" or "null"; tag is
\* <<>> when the member is missing; enabled is "undefined" when it is
Data(data, type, t, enabled) == [data |-> data, type |-> type, tag |-> t, enabled |-> enabled]

shape(message) ==
    CASE message = "nfcTagDetected" ->
            Data("object", "nfcTagDetected", Some("tag"), "undefined")
      [] message = "nfcStatusChanged" ->
            Data("object", "nfcStatusChanged", Null, "true")
      [] message = "other" -> Data("object", "other", Some("tag"), "true")
      [] message = "statusDisabled" ->
            Data("object", "nfcStatusChanged", Null, "false")
      [] message = "statusNull" -> Data("object", "nfcStatusChanged", Null, "null")
      [] message = "tagMissing" -> Data("object", "nfcTagDetected", Null, "true")
      [] message = "enabledMissing" ->
            Data("object", "nfcStatusChanged", Some("tag"), "undefined")
      [] message = "text" -> Data("string", "", Null, "undefined")
      [] message = "empty" -> Data("null", "", Null, "undefined")

\* the event a bridge backend raises for a message: <<>> when it ignores it
eventOf(message) ==
    LET m == shape(message)
    IN IF m.data # "object" THEN Null
       ELSE IF m.type = "nfcTagDetected" /\ m.tag # Null THEN Some("tagDetected")
       ELSE IF m.type = "nfcStatusChanged" /\ m.enabled # "undefined"
       THEN Some("nfcStatusChanged")
       ELSE Null

\* what the listeners of the event are called with: the tag, or
\* { enabled: !!event.data.enabled }
payloadOf(message) ==
    IF eventOf(message) = Some("tagDetected")
    THEN [tag |-> shape(message).tag[1]]
    ELSE [enabled |-> shape(message).enabled = "true"]

\* a variant that hears the window only while a scan session runs
Bridge_hearsWhileScanning(available, s) == available /\ s \in {"scan", "once"}

\* handleNativeMessage runs when the constructor subscribed it, that is
\* when the bridge was available at construction
Bridge_hears(available, s) == available

\* a message posted to the window of a bridge backend
NativeMessageOf(message) ==
    /\ Impl \in Bridges
    /\ LET event == IF Bridge_hears(isBridgeAvailable, session) THEN eventOf(message)
                    ELSE Null
           list == IF event = Null THEN <<>> ELSE listeners[event[1]]
           set == IF event = Null THEN {} ELSE nfcListeners[event[1]]
       IN /\ \E throwAt \in ThrowPoints(list) :
               last' = StepIO("message", <<message>>, Impl, None, {},
                              dispatch(list, throwAt, set), Null,
                              IF event = Null THEN Null ELSE Some(payloadOf(message)))
          /\ session' = heard(session, event)
    /\ UNCHANGED <<tag, env, facadeVars, backendVars, handles, simpleNfc>>

NativeMessage == \E message \in Messages : NativeMessageOf(message)

\* a message of any shape
InboundMessage == \E message \in InboundMessages : NativeMessageOf(message)

----------------------------------------------------------------------------
(* Listener registration.                                                  *)

\* this.listeners[eventName].push(listenerFunc)
push(list, c) == Append(list, c)

\* a variant that takes out one registration only, the first
removeFirstListener(list, c) ==
    IF \E i \in 1..Len(list) : list[i] = c
    THEN LET i == CHOOSE k \in 1..Len(list) :
                      list[k] = c /\ \A j \in 1..(k - 1) : list[j] # c
         IN SubSeq(list, 1, i - 1) \o SubSeq(list, i + 1, Len(list))
    ELSE list

\* a variant that takes out every registration of the event
removeEveryListener(list, c) == SelectSeq(list, LAMBDA l : FALSE)

\* this.listeners[eventName].filter(listener => listener !== listenerFunc)
removeListener(list, c) == SelectSeq(list, LAMBDA l : l # c)

\* the callbacks a caller registered under event e in the backend
registered(e) == {listeners[e][i] : i \in 1..Len(listeners[e])} \ {Monitor}

userCount(e) == Cardinality({i \in 1..Len(listeners[e]) : listeners[e][i] # Monitor})

\* Nfc.addListener(e, c), or the backend's when there is no facade
AddListenerTo(e, c) ==
    /\ implementation # "none"
    /\ userCount(e) < MaxListeners
    /\ nfcListeners' = IF nfc THEN [nfcListeners EXCEPT ![e] = @ \cup {c}]
                       ELSE nfcListeners
    /\ listeners' = [listeners EXCEPT ![e] = push(@, c)]
    /\ handles' = handles \cup {<<e, c>>}
    /\ last' = Step("addListener", <<e, c>>, Impl, Resolved, {}, NoCalls)
    /\ UNCHANGED <<tag, env, nfc, implementation, isBridgeAvailable, bridge, nfcSupported,
                   iosInfo, scanSessionActive, scanOnce, ndefReader, readers,
                   scanning, pending, session, simpleNfc>>

AddListener == \E e \in Events, c \in Callbacks : AddListenerTo(e, c)

\* a variant that leaves the facade's registry alone
Nfc_deleteNothing(set, c) == set

\* the facade's part of handle.remove(): this.listeners.get(e)?.delete(c)
Nfc_delete(set, c) == set \ {c}

\* handle.remove() of a handle given out by addListener
Remove ==
    /\ \E h \in handles :
        /\ nfcListeners' = IF nfc THEN [nfcListeners EXCEPT ![h[1]] = Nfc_delete(@, h[2])]
                           ELSE nfcListeners
        /\ listeners' = [listeners EXCEPT ![h[1]] = removeListener(@, h[2])]
        /\ last' = Step("remove", h, Impl, Resolved, {}, NoCalls)
    /\ UNCHANGED <<tag, env, nfc, implementation, isBridgeAvailable, bridge, nfcSupported,
                   iosInfo, scanSessionActive, scanOnce, ndefReader, readers,
                   scanning, pending, handles, session, simpleNfc>>

\* a variant that clears the tag listeners only
removeAllTagListeners(lists) == [lists EXCEPT !["tagDetected"] = <<>>]

\* the backend's removeAllListeners: this.listeners = {}
removeAllListeners(lists) == [e \in Events |-> <<>>]

\* the facade's part of removeAllListeners: this.listeners.clear()
Nfc_clear(sets) == [e \in Events |-> {}]

\* Nfc.removeAllListeners, or the backend's when there is no facade
RemoveAllListeners ==
    /\ implementation # "none"
    /\ nfcListeners' = IF nfc THEN Nfc_clear(nfcListeners) ELSE nfcListeners
    /\ listeners' = removeAllListeners(listeners)
    /\ last' = Step("removeAllListeners", <<>>, Impl, Resolved, {}, NoCalls)
    /\ UNCHANGED <<tag, env, nfc, implementation, isBridgeAvailable, bridge, nfcSupported,
                   iosInfo, scanSessionActive, scanOnce, ndefReader, readers,
                   scanning, pending, handles, session, simpleNfc>>

----------------------------------------------------------------------------
(* Changes of the environment.                                             *)

SetUserAgent ==
    /\ \E ua \in UserAgents : ua # userAgent /\ userAgent' = ua
    /\ last' = Step("environment", <<"userAgent">>, "none", None, {}, NoCalls)
    /\ UNCHANGED <<tag, nativeNfcBridge, nativeAndroidNfcBridge, NDEFReader, facadeVars,
                   backendVars, handles, session, simpleNfc>>

\* the host injects, replaces or removes the object of a global slot
SetNativeNfcBridge ==
    /\ \E slot \in Slots : slot # nativeNfcBridge /\ nativeNfcBridge' = slot
    /\ last' = Step("environment", <<"nativeNfcBridge">>, "none", None, {}, NoCalls)
    /\ UNCHANGED <<tag, userAgent, nativeAndroidNfcBridge, NDEFReader, facadeVars,
                   backendVars, handles, session, simpleNfc>>

SetNativeAndroidNfcBridge ==
    /\ \E slot \in Slots : slot # nativeAndroidNfcBridge /\ nativeAndroidNfcBridge' = slot
    /\ last' = Step("environment", <<"nativeAndroidNfcBridge">>, "none", None, {}, NoCalls)
    /\ UNCHANGED <<tag, userAgent, nativeNfcBridge, NDEFReader, facadeVars, backendVars,
                   handles, session, simpleNfc>>

SetNDEFReader ==
    /\ NDEFReader' = ~NDEFReader
    /\ last' = Step("environment", <<"NDEFReader">>, "none", None, {}, NoCalls)
    /\ UNCHANGED <<tag, userAgent, nativeNfcBridge, nativeAndroidNfcBridge, facadeVars,
                   backendVars, handles, session, simpleNfc>>

\* a page is loaded under another user agent and both detectors are asked,
\* as the constructor of Nfc asks them
Detect ==
    /\ \E i, a \in BOOLEAN, o, v \in VersionTexts :
        LET ua == UA(i, matchOs(o), a, matchAndroid(v), FALSE, FALSE)
        IN /\ userAgent' = ua
           /\ last' = StepIO("detect", <<>>, "none", None, {}, NoCalls,
                             Some([iosToken |-> i, os |-> o, androidToken |-> a,
                                   android |-> v]),
                             Some(<<getIosSupportInfo(ua), getAndroidSupportInfo(ua)>>))
    /\ UNCHANGED <<tag, nativeNfcBridge, nativeAndroidNfcBridge, NDEFReader, facadeVars,
                   backendVars, handles, session, simpleNfc>>

\* the record types of tags written elsewhere
ForeignTypes ==
    {<<>>, <<"text">>, <<"url">>, TEXT, <<"application", "/", "json">>,
     <<"urn:", "nfc:ext:example">>, <<"example.com:custom">>,
     <<"urn:", "x", "/", "y">>}

\* their data: none, a text, bytes that are no text
ForeignData == {Null, Some(<<97>>), Some(<<169>>)}

ForeignTags ==
    {<<[recordType |-> ty, data |-> d, lang |-> <<>>]>> :
        ty \in ForeignTypes, d \in ForeignData}

\* another tag comes into the field
PresentTag ==
    /\ \E t \in ForeignTags : t # tag /\ tag' = t
    /\ last' = Step("environment", <<"tag">>, "none", None, {}, NoCalls)
    /\ UNCHANGED <<env, facadeVars, backendVars, handles, session, simpleNfc>>

----------------------------------------------------------------------------
(* SimpleNfc.  A tag event is the sequence of its messages, a message the  *)
(* sequence of its records.                                                *)

\* the records of all messages, in order: the nested loops of NfcUtils
RECURSIVE flatten(_)
flatten(messages) ==
    IF messages = <<>> THEN <<>> ELSE Head(messages) \o flatten(Tail(messages))

\* what one pass of the loop of getUrlFromTag returns: <<>> to go on
urlOf(record) ==
    IF record.uri # <<>> THEN Some(record.uri)
    ELSE IF record.type \in {URI, <<"url">>} /\ record.payload # <<>>
    THEN Some(record.payload)
    ELSE Null

\* what one pass of the loop of getTextFromTag returns
textOf(record) ==
    IF record.text # <<>> THEN Some(record.text)
    ELSE IF record.type \in {TEXT, <<"text">>} /\ record.payload # <<>>
    THEN Some(record.payload)
    ELSE Null

\* the result of the first pass that returns, <<>> (null) when none does
firstOf(results) ==
    LET hits == {i \in 1..Len(results) : results[i] # Null}
    IN IF hits = {} THEN Null
       ELSE results[CHOOSE i \in hits : \A j \in hits : i <= j]

getUrlFromTag(messages) ==
    LET records == flatten(messages)
    IN firstOf([i \in 1..Len(records) |-> urlOf(records[i])])

getTextFromTag(messages) ==
    LET records == flatten(messages)
    IN firstOf([i \in 1..Len(records) |-> textOf(records[i])])

Told(content, type) == [content |-> content, type |-> type]

\* a variant that looks for a text before it looks for a URL
SimpleNfc_listenerTextFirst(messages) ==
    LET url == getUrlFromTag(messages)
        text == getTextFromTag(messages)
    IN IF text # Null THEN Told(text[1], "text")
       ELSE IF url # Null THEN Told(url[1], "url")
       ELSE IF Len(messages) > 0 /\ Len(messages[1]) > 0
       THEN Told(Or(messages[1][1].payload, <<"Unknown content">>), "other")
       ELSE Told(<<"Empty tag">>, "other")

\* the listener startReading registers: what it calls scanCallback with
SimpleNfc_listener(messages) ==
    LET url == getUrlFromTag(messages)
        text == getTextFromTag(messages)
    IN IF url # Null THEN Told(url[1], "url")
       ELSE IF text # Null THEN Told(text[1], "text")
       ELSE IF Len(messages) > 0 /\ Len(messages[1]) > 0
       THEN Told(Or(messages[1][1].payload, <<"Unknown content">>), "other")
       ELSE Told(<<"Empty tag">>, "other")

\* the members of a record the listener looks at
Rec(type, payload, text, uri) ==
    [type |-> type, payload |-> payload, text |-> text, uri |-> uri]

SimpleRecords ==
    {Rec(URI, <<"p">>, <<>>, <<"u">>), Rec(URI, <<"p">>, <<>>, <<>>),
     Rec(<<"url">>, <<"p">>, <<>>, <<>>), Rec(URI, <<>>, <<>>, <<>>),
     Rec(TEXT, <<"p">>, <<"t">>, <<>>), Rec(TEXT, <<"p">>, <<>>, <<>>),
     Rec(<<"text">>, <<"p">>, <<>>, <<>>), Rec(TEXT, <<>>, <<>>, <<>>),
     Rec(<<"x">>, <<"p">>, <<>>, <<>>), Rec(<<"x">>, <<>>, <<>>, <<>>),
     Rec(<<"x">>, <<"p">>, <<"t">>, <<>>)}

\* tags without a message, with an empty message, with one message of one
\* or two records, and with a record in the second message only
SimpleTags ==
    {<<>>, <<<<>>>>}
    \cup {<<<<r>>>> : r \in SimpleRecords}
    \cup {<<<<r, q>>>> : r, q \in SimpleRecords}
    \cup {<<<<>>, <<r>>>> : r \in SimpleRecords}

\* new SimpleNfc(): a facade of its own, and no callback
NewSimpleNfc ==
    /\ implementation = "none"
    /\ nfc' = TRUE
    /\ Construct(select(userAgent, nativeNfcBridge))
    /\ listeners' = [listeners EXCEPT !["nfcStatusChanged"] = <<Monitor>>]
    /\ simpleNfc' = Some(Null)
    /\ UNCHANGED nfcListeners
    /\ last' = Step("new", <<"SimpleNfc">>, implementation', None, {}, NoCalls)

\* the callbacks handed to startReading
ScanCallbacks == {"show"}

\* SimpleNfc.startReading(callback), up to the native scan: each call
\* registers an arrow function of its own, c, one not registered before
StartReading ==
    /\ simpleNfc # <<>>
    /\ \E callback \in ScanCallbacks, c \in Callbacks \ registered("tagDetected") :
        /\ c = CHOOSE new \in Callbacks \ registered("tagDetected") : TRUE
        /\ simpleNfc' = Some(Some(callback))
        /\ nfcListeners' = [nfcListeners EXCEPT !["tagDetected"] = @ \cup {c}]
        /\ listeners' = [listeners EXCEPT !["tagDetected"] = push(@, c)]
    /\ Impl_startScanSession(FALSE)
    /\ UNCHANGED <<tag, env, nfc, implementation, isBridgeAvailable, bridge, nfcSupported,
                   iosInfo, scanning, handles>>

\* SimpleNfc.stopReading()
StopReading ==
    /\ simpleNfc # <<>>
    /\ simpleNfc' = Some(Null)
    /\ IF Impl = "WebNfc"
       THEN \E abort \in AbortBehaviours :
            /\ ndefReader = 0 => abort = "absent"
            /\ scanSessionActive' = WebNfc_stopFlag(scanSessionActive)
            /\ UNCHANGED session
            /\ last' = Step("stopReading", <<abort>>, Impl, WebNfc_stopScanSession(abort),
                            WebNfc_stopCalls(abort), NoCalls)
       ELSE \E native \in {"resolve", "reject"} :
            /\ Bridge_stopCalls = {} => native = "resolve"
            /\ UNCHANGED scanSessionActive
            /\ session' = "stopped"
            /\ last' = Step("stopReading", <<native>>, Impl, Bridge_stopScanSession(native),
                            Bridge_stopCalls, NoCalls)
    /\ nfcListeners' = Nfc_clear(nfcListeners)
    /\ listeners' = removeAllListeners(listeners)
    /\ UNCHANGED <<tag, env, nfc, implementation, isBridgeAvailable, bridge, nfcSupported,
                   iosInfo, scanOnce, ndefReader, readers, scanning, pending, handles>>

\* a backend calls a listener of startReading with a tag event
TagDetected ==
    /\ simpleNfc # <<>>
    /\ registered("tagDetected") # {}
    /\ \E t \in SimpleTags :
        last' = StepIO("tagDetected", <<>>, Impl, None, {}, NoCalls, Some(t),
                       IF simpleNfc[1] = Null THEN Null
                       ELSE Some(SimpleNfc_listener(t)))
    /\ UNCHANGED <<tag, env, facadeVars, backendVars, handles, session, simpleNfc>>

----------------------------------------------------------------------------
(* Specifications.                                                         *)

\* Calls on one facade, or on one backend used directly, constructed in any
\* environment; no caller registers a listener.
Next ==
    \/ NewNfc
    \/ \E class \in Backends : NewBackend(class)
    \/ IsEnabled
    \/ StartScanSession
    \/ ScanResolves
    \/ ScanRejects
    \/ StopScanSession
    \/ Reading
    \/ NativeMessage
    \/ SetNDEFReader

Spec == Init /\ [][Next]_vars

\* One facade in an environment that keeps changing under it.
NextBind ==
    \/ NewNfc
    \/ IsEnabled
    \/ StartScanSession
    \/ StopScanSession
    \/ NativeMessage
    \/ RemoveAllListeners
    \/ SetUserAgent
    \/ SetNativeNfcBridge
    \/ SetNativeAndroidNfcBridge
    \/ SetNDEFReader

SpecBind == Init /\ [][NextBind]_vars

\* The deployments in which a backend can deliver events: a browser with
\* Web NFC, an iOS app and an Android app that inject a full bridge.
WebApp == <<AndroidChrome, Null, Null, TRUE>>
IosApp == <<IPhone, Some(FullBridge), Null, FALSE>>
AndroidApp == <<AndroidWebView, Null, Some(FullBridge), FALSE>>

InitEvents == Init /\ env \in {WebApp, IosApp, AndroidApp}

\* Listeners and events on one facade, or on the backend no facade binds.
NextEvents ==
    \/ NewNfc
    \/ NewBackend("AndroidBridgeNfc")
    \/ StartScanSession
    \/ ScanResolves
    \/ ScanRejects
    \/ StopScanSession
    \/ Reading
    \/ NativeMessage
    \/ AddListener
    \/ Remove
    \/ RemoveAllListeners

SpecEvents == InitEvents /\ [][NextEvents]_vars

\* The tag operations on one facade or backend, constructed in any
\* environment.
NextOps ==
    \/ NewNfc
    \/ \E class \in Backends : NewBackend(class)
    \/ OpenSettings
    \/ WriteOf(<<createTextRecord(<<"a">>, <<>>)>>)
    \/ MakeReadOnly
    \/ Format
    \/ Erase
    \/ Share
    \/ StopSharing
    \/ SetNDEFReader

SpecOps == Init /\ [][NextOps]_vars

\* A bridge backend, alone or bound by a facade, while the host injects and
\* removes bridge objects.
InitBridge == Init /\ userAgent \in {IPhone, AndroidWebView} /\ ~NDEFReader

NextBridge ==
    \/ NewNfc
    \/ \E class \in Bridges : NewBackend(class)
    \/ IsEnabled
    \/ StartScanSession
    \/ ScanResolves
    \/ ScanRejects
    \/ WriteOf(<<createTextRecord(<<"a">>, <<>>)>>)
    \/ NativeMessage
    \/ AddListenerTo("tagDetected", "f")
    \/ SetNativeNfcBridge
    \/ SetNativeAndroidNfcBridge

SpecBridge == InitBridge /\ [][NextBridge]_vars

\* Messages written and read back, in a browser and in an iOS app.
InitCodec == Init /\ env \in {WebApp, IosApp}

NextCodec ==
    \/ NewNfc
    \/ StartScanSession
    \/ ScanResolves
    \/ Write
    \/ Reading

SpecCodec == InitCodec /\ [][NextCodec]_vars

\* Tags written elsewhere, read in a browser.
InitTags == Init /\ env = WebApp

NextTags ==
    \/ NewNfc
    \/ NewBackend("WebNfc")
    \/ StartScanSession
    \/ ScanResolves
    \/ StopScanSession
    \/ PresentTag
    \/ Reading

SpecTags == InitTags /\ [][NextTags]_vars

\* The detectors over user agents with and without version tokens.
InitDetect ==
    Init /\ nativeNfcBridge = Null /\ nativeAndroidNfcBridge = Null /\ ~NDEFReader

NextDetect == Detect

SpecDetect == InitDetect /\ [][NextDetect]_vars

\* Messages of every shape posted to a bridge backend, bound by a facade or
\* used alone, in an iOS app and in an Android app.
InitInbound == Init /\ env \in {IosApp, AndroidApp}

NextInbound ==
    \/ NewNfc
    \/ \E class \in Bridges : NewBackend(class)
    \/ AddListener
    \/ InboundMessage

SpecInbound == InitInbound /\ [][NextInbound]_vars

\* Handles given out, kept and used while listeners come and go.
NextHandles ==
    \/ NewNfc
    \/ NewBackend("AndroidBridgeNfc")
    \/ AddListener
    \/ Remove
    \/ RemoveAllListeners

SpecHandles == InitEvents /\ [][NextHandles]_vars

\* Scan sessions of a bridge backend, with once and without, started,
\* stopped and refused while the host posts messages.
NextSession ==
    \/ NewNfc
    \/ \E class \in Bridges : NewBackend(class)
    \/ AddListenerTo("tagDetected", "f")
    \/ AddListenerTo("tagDetected", "g")
    \/ \E once \in BOOLEAN : StartScanSessionWith(once)
    \/ ScanResolves
    \/ ScanRejects
    \/ StopScanSession
    \/ NativeMessage

SpecSession == InitInbound /\ [][NextSession]_vars

\* Overlapping startScanSession calls in a browser: no caller passes once
\* and none calls stopScanSession.
NextOverlap ==
    \/ NewNfc
    \/ NewBackend("WebNfc")
    \/ AddListenerTo("tagDetected", "f")
    \/ StartScanSessionWith(FALSE)
    \/ ScanResolves
    \/ ScanRejects
    \/ Reading

SpecOverlap == InitTags /\ [][NextOverlap]_vars

\* One SimpleNfc whose readers start and stop while tags are detected.
NextSimple ==
    \/ NewSimpleNfc
    \/ StartReading
    \/ ScanResolves
    \/ ScanRejects
    \/ StopReading
    \/ Reading
    \/ NativeMessage

SpecSimple == InitEvents /\ [][NextSimple]_vars

\* The listener of one SimpleNfc over tags of every shape.
NextContent ==
    \/ NewSimpleNfc
    \/ StartReading
    \/ TagDetected

SpecContent == InitEvents /\ [][NextContent]_vars

----------------------------------------------------------------------------
(* Claims.                                                                 *)

\* the step that was just taken is `new Nfc()`
JustBound == last.op = "new" /\ last.arg = <<"Nfc">>

\* C1: a facade constructed where iOS is detected and window.nativeNfcBridge
\* is defined binds the iOS bridge backend, whatever the Android facts and
\* the presence of NDEFReader.
C1_IosBridgeFirst ==
    (JustBound /\ userAgent.iosToken /\ nativeNfcBridge # Null)
        => implementation = "IosBridgeNfc"

C1_Witness ==
    /\ JustBound
    /\ implementation = "IosBridgeNfc"
    /\ userAgent.androidToken
    /\ shouldUseNativeBridge(userAgent)
    /\ NDEFReader

\* C2: a facade constructed where rule (1) does not apply, Android is
\* detected and the Android facts prefer a native bridge (WebView markers
\* with native NFC support) binds the Android bridge backend.
C2_AndroidBridgeSecond ==
    (/\ JustBound
     /\ ~(userAgent.iosToken /\ nativeNfcBridge # Null)
     /\ userAgent.androidToken
     /\ shouldUseNativeBridge(userAgent))
        => implementation = "AndroidBridgeNfc"

\* C3: for a user agent with no iOS and no Android marker both detectors
\* report the platform as not detected, with version null and no native NFC
\* support, and a facade constructed there binds the radio backend.
C3_NoMarkersBindsRadio ==
    (~userAgent.iosToken /\ ~userAgent.androidToken) =>
        /\ ~getIosSupportInfo(userAgent).isIos
        /\ getIosSupportInfo(userAgent).version = Null
        /\ ~getIosSupportInfo(userAgent).supportsNfc
        /\ ~getAndroidSupportInfo(userAgent).isAndroid
        /\ getAndroidSupportInfo(userAgent).version = Null
        /\ ~getAndroidSupportInfo(userAgent).supportsNfc
        /\ (JustBound => implementation = "WebNfc")

C3_Witness ==
    /\ JustBound
    /\ ~userAgent.iosToken /\ ~userAgent.androidToken
    /\ userAgent.osVersion # <<>>
    /\ nativeNfcBridge # Null
    /\ implementation = "WebNfc"

\* the steps that are calls forwarded by the facade, or events of its backend
Forwarded ==
    {"isEnabled", "startScanSession", "stopScanSession", "removeAllListeners",
     "message"}

\* C4: the backend bound by the constructor never changes: whatever the
\* operations, events and changes of the environment, every operation of the
\* facade is served by the backend selected at construction.
C4_BindingIsFinal ==
    [][/\ nfc => implementation' = implementation
       /\ (nfc /\ last'.op \in Forwarded) => last'.target = implementation]_vars

C4_Witness ==
    /\ nfc
    /\ last.op = "isEnabled"
    /\ last.target = implementation
    /\ select(userAgent, nativeNfcBridge) # implementation

\* C5: isEnabled never rejects, on the facade and on each backend; it
\* resolves {enabled: false} when the bridge was not available at
\* construction, when the native isNfcEnabled rejects, when the radio backend
\* runs on iOS and when NDEFReader was absent at construction.
CannotTell ==
    \/ implementation \in Bridges /\ (~isBridgeAvailable \/ last.arg = <<"reject">>)
    \/ implementation = "WebNfc" /\ (iosInfo[1].isIos \/ ~nfcSupported)

C5_IsEnabledNeverRejects ==
    last.op = "isEnabled" =>
        /\ last.outcome = "resolved"
        /\ last.enabled # Null
        /\ CannotTell => last.enabled = Some(FALSE)

C5_Witness ==
    /\ nfc
    /\ implementation = "IosBridgeNfc"
    /\ last.op = "isEnabled"
    /\ last.arg = <<"reject">>
    /\ last.enabled = Some(FALSE)

\* C6: a facade bound to a radio backend that cannot scan (no NDEFReader at
\* construction, or iOS) resolves isEnabled with {enabled: false} and rejects
\* every startScanSession with code NOT_SUPPORTED, without constructing a
\* reader or setting the session-active flag.
C6_RadioUnsupported ==
    (nfc /\ implementation = "WebNfc" /\ (~nfcSupported \/ iosInfo[1].isIos)) =>
        /\ last.op = "isEnabled" => last.enabled = Some(FALSE)
        /\ last.op = "startScanSession" =>
              /\ last.outcome = "rejected"
              /\ last.err[1].code = Some(NOT_SUPPORTED)
              /\ last.called = {}
        /\ readers = 0
        /\ ndefReader = 0
        /\ ~scanSessionActive

C6_Witness ==
    /\ nfc
    /\ implementation = "WebNfc"
    /\ ~nfcSupported
    /\ ~iosInfo[1].isIos
    /\ NDEFReader
    /\ last.op = "startScanSession"
    /\ last.outcome = "rejected"
    /\ last.err[1].code = Some(NOT_SUPPORTED)

\* the code of the first test, in the order of the claim, that the error passes
FirstMatch(e) ==
    LET has(pattern) == e.kind = "error" /\ Includes(e.message, pattern)
        named(name) == e.kind = "error" /\ e.name = name
    IN IF has(<<"not", "supported">>) \/ named("NotSupportedError") THEN NOT_SUPPORTED
       ELSE IF has(<<"permission">>) \/ named("NotAllowedError") THEN PERMISSION_DENIED
       ELSE IF has(<<"not", "enabled">>) THEN NOT_ENABLED
       ELSE UNEXPECTED_ERROR

\* C7: every error the facade's startScanSession rejects with is an error
\* object that keeps the message of what the backend threw and carries one
\* code, that of the first matching test (not supported, permission, not
\* enabled, else unexpected).
C7_RejectionsAreClassified ==
    (nfc /\ last.op = "startScanSession" /\ last.outcome = "rejected") =>
        /\ last.err[1].kind = "error"
        /\ last.raised[1].message # <<>> => last.err[1].message = last.raised[1].message
        /\ last.err[1].code = Some(FirstMatch(last.raised[1]))

\* C8: in a radio session started with once: true the first detection calls
\* each registered tagDetected listener once and leaves the session-active
\* flag false, and a detection that finds the flag false calls no listener.
C8_OnceSession ==
    [][(Impl = "WebNfc" /\ last'.op = "reading") =>
          /\ (scanSessionActive /\ scanOnce /\ last'.arg = <<"tag">>) =>
                /\ \A c \in Callbacks :
                      last'.invoked[c] = calls(listeners["tagDetected"], 0, c)
                /\ ~scanSessionActive'
          /\ ~scanSessionActive => last'.invoked = NoCalls]_vars

\* the event a step delivers: <<>> when it delivers none
Delivered(step) ==
    IF step.op = "reading" THEN Some("tagDetected")
    ELSE IF step.op = "message" THEN eventOf(step.arg[1])
    ELSE Null

\* C9: after remove() of a handle of Nfc.addListener(e, f), f is in neither
\* the facade's nor the backend's registry for e, and an event e does not
\* call a callback that is in neither registry; a remove() that finds f in
\* neither registry resolves and changes neither registry.
C9_RemoveUnregisters ==
    [][/\ \A e \in Events, f \in Callbacks :
            (nfc /\ last'.op = "remove" /\ last'.arg = <<e, f>>) =>
               /\ last'.outcome = "resolved"
               /\ f \notin nfcListeners'[e]
               /\ f \notin registered(e)'
               /\ (f \notin nfcListeners[e] /\ f \notin registered(e)) =>
                     (nfcListeners' = nfcListeners /\ listeners' = listeners)
       /\ (nfc /\ Delivered(last') # Null) =>
            \A f \in Callbacks :
                (f \notin nfcListeners[Delivered(last')[1]]
                 /\ f \notin registered(Delivered(last')[1])) => last'.invoked[f] = 0]_vars

C9_Witness ==
    /\ nfc
    /\ last.op = "remove"
    /\ last.arg[2] \notin registered(last.arg[1])
    /\ registered(last.arg[1]) # {}
    /\ scanSessionActive

\* C10: stopScanSession is idempotent on every backend: every call resolves,
\* and a call that follows another leaves the backend as the first left it.
C10_StopIsIdempotent ==
    [][last'.op = "stopScanSession" =>
          /\ last'.outcome = "resolved"
          /\ last.op = "stopScanSession" =>
                (backendVars' = backendVars /\ facadeVars' = facadeVars)]_vars

C10_Witness ==
    /\ implementation \in Bridges
    /\ last.op = "stopScanSession"
    /\ last.arg = <<"reject">>
    /\ last.outcome = "resolved"

\* the error says that the bridge is not available
SaysBridgeMissing(e) ==
    e.kind = "error" /\ Includes(e.message, <<"bridge", "not", "available">>)

\* C11: a bridge backend constructed with no object in its global slot
\* resolves isEnabled with {enabled: false} and rejects write and
\* startScanSession with an error whose message says that the bridge is not
\* available, and calls no native function.
C11_NoBridgeObject ==
    (implementation \in Bridges /\ bridge = {}) =>
        /\ last.op = "isEnabled" => (last.enabled = Some(FALSE) /\ last.called = {})
        /\ last.op \in {"write", "startScanSession"} =>
              /\ last.outcome = "rejected"
              /\ SaysBridgeMissing(last.err[1])
              /\ last.called = {}

C11_Witness ==
    /\ implementation = "AndroidBridgeNfc"
    /\ bridge = {}
    /\ last.op = "write"
    /\ last.input # Some(<<>>)
    /\ last.outcome = "rejected"
    /\ SaysBridgeMissing(last.err[1])

\* the object now in the global slot of the backend is a complete bridge
InjectedLater ==
    /\ implementation \in Bridges
    /\ ~isBridgeAvailable
    /\ slotOrEmpty(slotOf(implementation)) = FullBridge

\* C12: the availability of a bridge backend is decided in its constructor
\* and never changes: a backend that was unavailable then, whatever is put in
\* its global slot later, resolves isEnabled with {enabled: false}, rejects
\* startScanSession and write, and dispatches no inbound message.
C12_AvailabilityIsFrozen ==
    [][(implementation \in Bridges) =>
          (/\ isBridgeAvailable' = isBridgeAvailable
           /\ ~isBridgeAvailable =>
                (/\ last'.op = "isEnabled" => last'.enabled = Some(FALSE)
                 /\ last'.op \in {"write", "startScanSession"} =>
                       (last'.outcome = "rejected" /\ last'.called = {})
                 /\ last'.op = "message" => last'.invoked = NoCalls))]_vars

C12_Witness ==
    /\ InjectedLater
    /\ listeners["tagDetected"] # <<>>
    /\ last.op = "message"
    /\ last.arg = <<"nfcTagDetected">>
    /\ last.invoked = NoCalls

\* the records a reading step handed to the listeners
Decoded == last.data[1][1]

\* a reading step that delivered the records of the tag in the field
ReadTag == last.op = "reading" /\ last.data # Null /\ tag # <<>>

\* the classification of a type string: empty, the text or URI keyword,
\* containing "/", prefixed "urn:", anything else, tested in that order
classifyType(type) ==
    IF type = <<>> THEN EMPTY
    ELSE IF type \in {TEXT, URI, <<"text">>, <<"url">>} THEN WELL_KNOWN
    ELSE IF \E i \in 1..Len(type) : type[i] = "/" THEN MIME_MEDIA
    ELSE IF type[1] = "urn:" THEN ABSOLUTE_URI
    ELSE EXTERNAL_TYPE

\* C13: the TNF of a record is the classification of its type string: ""
\* is EMPTY, "T" is WELL_KNOWN, "application/json" is MIME_MEDIA,
\* "urn:nfc:ext:example" is ABSOLUTE_URI, "example.com:custom" is
\* EXTERNAL_TYPE.
C13_TnfClassification ==
    ReadTag =>
        \A i \in 1..Len(tag) : Decoded[i].tnf = classifyType(tag[i].recordType)

\* the tag holds what a write of message m left on it
Wrote(m) == tag = storedRecords(writeRecords(m))

\* C14: a text record written by the radio backend and read back has its
\* text as text and as payload, and its language code, or "en" when it had
\* none.
C14_TextRoundTrip ==
    ReadTag =>
        \A m \in WriteMessages : Wrote(m) =>
            \A i \in 1..Len(m) : m[i].type = TEXT =>
                /\ Decoded[i].text = m[i].text
                /\ Decoded[i].payload = m[i].text
                /\ Decoded[i].languageCode =
                      (IF m[i].languageCode = <<>> THEN <<"en">> ELSE m[i].languageCode)

C14_Witness ==
    /\ ReadTag
    /\ Wrote(<<createTextRecord(<<"e-acute">>, <<"fr">>)>>)
    /\ Decoded[1].text = <<"e-acute">>
    /\ Decoded[1].languageCode = <<"fr">>

\* C15: a URI record written by the radio backend and read back has its URI
\* as uri and as payload.
C15_UriRoundTrip ==
    ReadTag =>
        \A m \in WriteMessages : Wrote(m) =>
            \A i \in 1..Len(m) : m[i].type = URI =>
                (Decoded[i].uri = m[i].uri /\ Decoded[i].payload = m[i].uri)

C15_Witness ==
    /\ ReadTag
    /\ Wrote(<<createUriRecord(<<"e-acute">>)>>)
    /\ Decoded[1].uri = <<"e-acute">>

\* C16: every path keeps the records of a message in their order and number:
\* the radio backend's write, its reading parser, and the write of a bridge
\* backend.
C16_OrderIsPreserved ==
    /\ (last.op = "write" /\ last.data # Null) =>
          /\ Len(last.data[1]) = Len(last.input[1])
          /\ \A i \in 1..Len(last.input[1]) :
                last.data[1][i] =
                    IF implementation = "WebNfc"
                    THEN recordOptions(last.input[1][i])
                    ELSE stringify(<<last.input[1][i]>>)[1]
    /\ ReadTag =>
          /\ Len(last.data[1]) = 1
          /\ Len(Decoded) = Len(tag)
          /\ \A i \in 1..Len(tag) : Decoded[i] = parseRecord(tag[i])

C16_Witness ==
    /\ implementation = "WebNfc"
    /\ last.op = "write"
    /\ last.outcome = "resolved"
    /\ Len(last.input[1]) = 2
    /\ last.input[1][1] # last.input[1][2]
    /\ Len(tag) = 2

\* the error says that the operation is not supported
SaysUnsupported(e) ==
    /\ e.kind = "error"
    /\ \/ Includes(e.message, <<"not", "supported">>)
       \/ Includes(e.message, <<"don't", "support">>)

\* C17: share and stopSharing never resolve on the radio backend or on the
\* iOS bridge backend, supported or not, bridge available or not: each call
\* rejects with an error that says unsupported; only the Android bridge
\* backend resolves them, and only by calling the native function.
C17_ShareIsAndroidOnly ==
    last.op \in ShareOperations =>
        /\ implementation \in {"WebNfc", "IosBridgeNfc"} =>
              /\ last.outcome = "rejected"
              /\ SaysUnsupported(last.err[1])
              /\ last.called = {}
        /\ last.outcome = "resolved" =>
              /\ implementation = "AndroidBridgeNfc"
              /\ last.called = {nativeFunction(last.op)}
              /\ last.arg = <<"resolve">>

C17_Witness ==
    /\ implementation = "WebNfc"
    /\ nfcSupported
    /\ last.op = "stopSharing"
    /\ last.outcome = "rejected"
    /\ SaysUnsupported(last.err[1])

\* C18: makeReadOnly, format and erase never resolve without a native call
\* that resolved: the Android bridge forwards to its function, the radio
\* backend's format and erase write one empty message; makeReadOnly on the
\* radio backend and every call on the iOS bridge reject, and the Android
\* bridge without the function rejects with "not implemented in the Android
\* bridge".
C18_TagOperationsNeverPretend ==
    last.op \in TagOperations =>
        /\ last.outcome \in {"resolved", "rejected"}
        /\ last.outcome = "resolved" =>
              (last.called # {} /\ last.arg = <<"resolve">>)
        /\ (implementation = "WebNfc" /\ last.called # {}) =>
              /\ last.op \in {"format", "erase"}
              /\ last.called = {"NDEFReader", "write"}
              /\ last.data = Some(<<>>)
        /\ (implementation = "WebNfc" /\ last.op = "makeReadOnly") =>
              (last.outcome = "rejected" /\ last.err[1].kind = "error")
        /\ implementation = "IosBridgeNfc" =>
              (last.outcome = "rejected" /\ last.err[1].kind = "error")
        /\ implementation = "AndroidBridgeNfc" =>
              IF nativeFunction(last.op) \in bridge /\ isBridgeAvailable
              THEN last.called = {nativeFunction(last.op)}
              ELSE /\ last.outcome = "rejected"
                   /\ last.err[1].kind = "error"
                   /\ Includes(last.err[1].message,
                               <<"not", "implemented", "in", "the", "Android", "bridge">>)

C18_Witness ==
    /\ implementation = "WebNfc"
    /\ last.op = "erase"
    /\ last.outcome = "resolved"
    /\ last.called = {"NDEFReader", "write"}

\* the step dispatched event e to the listeners of the backend
Dispatched(e) ==
    /\ Delivered(last) = Some(e)
    /\ last.op = "reading" => last.data # Null
    /\ last.op = "message" => isBridgeAvailable

\* C19: when a backend dispatches an event, every callback registered under
\* the event is called once for each of its registrations, whatever the
\* callbacks do, a callback that throws included.  (Calls that the facade
\* adds by re-broadcasting a status event are left out.)
C19_EveryListenerIsCalled ==
    \A e \in Events :
        (Dispatched(e) /\ (~nfc \/ e = "tagDetected")) =>
            \A c \in Callbacks : last.invoked[c] = calls(listeners[e], 0, c)

\* C20: a callback registered through Nfc.addListener("nfcStatusChanged", f)
\* is called once for each status event of the bound backend.
C20_StatusListenerCalledOnce ==
    (nfc /\ Dispatched("nfcStatusChanged")) =>
        \A f \in nfcListeners["nfcStatusChanged"] : last.invoked[f] = 1

\* every registry of the facade and of its backend is empty
NoListeners ==
    \A e \in Events : nfcListeners[e] = {} /\ listeners[e] = <<>>

\* C21: removeAllListeners of the facade always resolves and leaves the
\* facade's registry and the backend's registry empty for every event name;
\* a registry gains a callback only through addListener of that callback,
\* and an event calls only callbacks that are in a registry of its name, so
\* a callback registered before the call is not called again unless it is
\* registered again.
C21_RemoveAllClears ==
    [][/\ (nfc /\ last'.op = "removeAllListeners") =>
             (last'.outcome = "resolved" /\ NoListeners')
       /\ \A e \in Events, c \in Callbacks :
             (nfc /\ \/ (c \in nfcListeners'[e] /\ c \notin nfcListeners[e])
                     \/ (c \in registered(e)' /\ c \notin registered(e))) =>
                (last'.op = "addListener" /\ last'.arg = <<e, c>>)
       /\ (nfc /\ Delivered(last') # Null) =>
             \A c \in Callbacks :
                last'.invoked[c] > 0 =>
                   (c \in registered(Delivered(last')[1])
                    \/ c \in nfcListeners[Delivered(last')[1]])]_vars

C21_Witness ==
    /\ nfc
    /\ last.op = "removeAllListeners"
    /\ \A e \in Events : \E c \in Callbacks : <<e, c>> \in handles
    /\ scanSessionActive
    /\ NoListeners

\* the user agent of a detect step and what the two detectors returned
Sniffed == last.input[1]
IosFacts == last.data[1][1]
AndroidFacts == last.data[1][2]

\* the text holds a version token in the form of the platform: iOS
\* major_minor, Android major or major.minor
HasIosVersion(text) ==
    Len(text) >= 3 /\ text[1] \in Digits /\ text[2] = "_" /\ text[3] \in Digits
HasAndroidVersion(text) == Len(text) >= 1 /\ text[1] \in Digits

\* C22: in every result of both detectors the version is null exactly when
\* the platform is not detected or the user agent has no parseable version
\* token; a null version means no native NFC support; and native NFC
\* support holds exactly when the platform is detected and the version is at
\* least 11 on iOS and 4.0 on Android.
C22_DetectorFacts ==
    last.op = "detect" =>
        /\ IosFacts.isIos = Sniffed.iosToken
        /\ AndroidFacts.isAndroid = Sniffed.androidToken
        /\ IosFacts.version = Null <=>
              (~Sniffed.iosToken \/ ~HasIosVersion(Sniffed.os))
        /\ AndroidFacts.version = Null <=>
              (~Sniffed.androidToken \/ ~HasAndroidVersion(Sniffed.android))
        /\ IosFacts.version = Null => ~IosFacts.supportsNfc
        /\ AndroidFacts.version = Null => ~AndroidFacts.supportsNfc
        /\ IosFacts.supportsNfc <=>
              (Sniffed.iosToken /\ IosFacts.version # Null /\ IosFacts.version[1] >= 110)
        /\ AndroidFacts.supportsNfc <=>
              (/\ Sniffed.androidToken
               /\ AndroidFacts.version # Null
               /\ AndroidFacts.version[1] >= 40)

C22_Witness ==
    /\ last.op = "detect"
    /\ Sniffed.iosToken /\ Sniffed.os = <<"10", "_", "9">>
    /\ IosFacts.version = Some(109) /\ ~IosFacts.supportsNfc
    /\ Sniffed.androidToken /\ Sniffed.android = <<"X">>
    /\ AndroidFacts.version = Null /\ ~AndroidFacts.supportsNfc

\* C23: the version is major + minor/10 (here in tenths): on Android the
\* dot form "14.2" gives 14.2 and a major alone gives the major; on iOS the
\* underscore form "14_2_1" gives 14.2, the third component ignored; a user
\* agent with no version token gives null.
C23_VersionParsing ==
    last.op = "detect" =>
        /\ (Sniffed.androidToken /\ HasAndroidVersion(Sniffed.android)) =>
              AndroidFacts.version =
                 Some(10 * parseInt(Sniffed.android[1])
                      + (IF Len(Sniffed.android) >= 3 /\ Sniffed.android[2] = "."
                         THEN parseInt(Sniffed.android[3]) ELSE 0))
        /\ (Sniffed.iosToken /\ HasIosVersion(Sniffed.os)) =>
              IosFacts.version =
                 Some(10 * parseInt(Sniffed.os[1]) + parseInt(Sniffed.os[3]))
        /\ (Sniffed.androidToken /\ Sniffed.android = <<"14", ".", "2">>) =>
              AndroidFacts.version = Some(142)
        /\ (Sniffed.androidToken /\ Sniffed.android = <<"14">>) =>
              AndroidFacts.version = Some(140)
        /\ (Sniffed.iosToken /\ Sniffed.os = <<"14", "_", "2", "_", "1">>) =>
              IosFacts.version = Some(142)
        /\ Sniffed.os = <<>> => IosFacts.version = Null
        /\ Sniffed.android = <<>> => AndroidFacts.version = Null

C23_Witness ==
    /\ last.op = "detect"
    /\ Sniffed.iosToken /\ Sniffed.os = <<"14", "_", "2", "_", "1">>
    /\ IosFacts.version = Some(142)
    /\ Sniffed.androidToken /\ Sniffed.android = <<"14", ".", "2">>
    /\ AndroidFacts.version = Some(142)

\* C24: on an available bridge backend a message of type "nfcTagDetected"
\* that carries a tag calls every tagDetected listener, with the tag, and no
\* other callback; a message of type "nfcStatusChanged" with enabled defined
\* calls every nfcStatusChanged listener, with {enabled: boolean}, and no
\* other callback; a message of any other shape calls no callback and
\* changes nothing.
C24_InboundMessages ==
    [][(implementation \in Bridges /\ isBridgeAvailable /\ last'.op = "message") =>
          LET m == shape(last'.arg[1])
              detection == m.data = "object" /\ m.type = "nfcTagDetected" /\ m.tag # Null
              status == /\ m.data = "object" /\ m.type = "nfcStatusChanged"
                        /\ m.enabled # "undefined"
              toAll(e) ==
                  \A c \in Callbacks :
                      /\ c \in registered(e) => last'.invoked[c] >= 1
                      /\ c \notin registered(e) => last'.invoked[c] = 0
          IN /\ detection => (toAll("tagDetected") /\ last'.data = Some([tag |-> m.tag[1]]))
             /\ status =>
                   /\ toAll("nfcStatusChanged")
                   /\ last'.data = Some([enabled |-> m.enabled = "true"])
             /\ (~detection /\ ~status) =>
                   /\ last'.invoked = NoCalls
                   /\ last'.data = Null
                   /\ UNCHANGED <<env, facadeVars, backendVars, handles, tag>>]_vars

\* C25: when the native start-scan or write call rejects, a bridge backend
\* throws an error of its own making with a descriptive message, not the
\* value the native side rejected with.
C25_BridgesRewrap ==
    (/\ implementation \in Bridges
     /\ last.op \in {"startScanSession", "write"}
     /\ last.outcome = "rejected") =>
        /\ last.raised[1].kind = "error"
        /\ last.raised[1].message # <<>>
        /\ last.raised[1] \notin NativeRejections \cup Failures

\* C26: on the radio backend stopScanSession leaves the session-active flag
\* false, the flag becomes true again only in a startScanSession call that
\* constructs a reader, and while it is false a reading event of any reader
\* calls no listener.
C26_StoppedSessionIsSilent ==
    [][(implementation = "WebNfc") =>
          (/\ last'.op = "stopScanSession" => ~scanSessionActive'
           /\ (~scanSessionActive /\ scanSessionActive') =>
                 (last'.op = "startScanSession" /\ "NDEFReader" \in last'.called)
           /\ (~scanSessionActive /\ last'.op = "reading") =>
                 (last'.invoked = NoCalls /\ last'.data = Null))]_vars

C26_Witness ==
    /\ implementation = "WebNfc"
    /\ last.op = "reading"
    /\ last.arg = <<"tag">>
    /\ ~scanSessionActive
    /\ ~scanOnce
    /\ Cardinality(scanning) = 2
    /\ listeners["tagDetected"] # <<>>
    /\ last.invoked = NoCalls

\* C27: on the radio backend each startScanSession call that passes the
\* guards constructs a fresh reader, and a reading event is dispatched to
\* the tagDetected listeners only when it comes from the reader constructed
\* last.
C27_OnlyLatestReader ==
    [][(implementation = "WebNfc") =>
          (/\ (last'.op = "startScanSession" /\ "NDEFReader" \in last'.called) =>
                 (readers' = readers + 1 /\ ndefReader' = readers')
           /\ (last'.op = "reading" /\ last'.invoked # NoCalls) =>
                 last'.input = Some(ndefReader))]_vars

\* C28: a write of the radio backend, resolved or rejected, leaves the
\* session-active flag, the once flag, the listener registries and the scan
\* reader as they were; when the native write rejects, write has made that
\* one native call, rejects with one error of its own making and does
\* nothing else.
C28_WriteFrame ==
    [][(implementation = "WebNfc" /\ last'.op = "write") =>
          (/\ UNCHANGED <<scanSessionActive, scanOnce, listeners, nfcListeners,
                           ndefReader, readers, scanning, pending>>
           /\ last'.arg = <<"reject">> =>
                 (/\ last'.called = {"NDEFReader", "write"}
                  /\ last'.outcome = "rejected"
                  /\ last'.raised[1].kind = "error"
                  /\ last'.raised[1].message # <<>>
                  /\ last'.raised[1] \notin Failures
                  /\ last'.err = last'.raised
                  /\ last'.invoked = NoCalls
                  /\ tag' = tag))]_vars

C28_Witness ==
    /\ implementation = "WebNfc"
    /\ last.op = "write"
    /\ last.arg = <<"reject">>
    /\ last.raised = Some(WritePermissionDenied)
    /\ scanSessionActive
    /\ ndefReader # 0
    /\ tag # <<>>

\* the operations the facade hands to its backend without a catch block
PassedOperations ==
    {"openSettings", "write", "makeReadOnly", "format", "erase", "share",
     "stopSharing"}

\* C29: when the backend rejects openSettings, write, makeReadOnly, format,
\* erase, share or stopSharing, the facade rejects with the very value the
\* backend threw, no code added, and no field of the facade changes.
C29_FacadePassesErrors ==
    [][(nfc /\ last'.op \in PassedOperations /\ last'.outcome = "rejected") =>
          (/\ last'.err = last'.raised
           /\ last'.err[1].code = Null
           /\ UNCHANGED facadeVars)]_vars

C29_Witness ==
    /\ nfc
    /\ implementation = "IosBridgeNfc"
    /\ last.op = "openSettings"
    /\ last.arg = <<"reject">>
    /\ last.outcome = "rejected"
    /\ last.err = last.raised
    /\ last.err[1].kind = "error"
    /\ last.err[1].name = "NotSupportedError"

\* C30: whenever a call of addListener, of a handle's remove or of
\* removeAllListeners has returned, the callbacks in the facade's registry
\* of an event are the callbacks callers registered in the backend's
\* registry of that event, the facade's own status callback left aside.
C30_RegistriesAgree ==
    nfc => \A e \in Events : nfcListeners[e] = registered(e)

C30_Witness ==
    /\ nfc
    /\ last.op = "remove"
    /\ last.arg = <<"nfcStatusChanged", "f">>
    /\ nfcListeners["nfcStatusChanged"] = {"g"}
    /\ listeners["nfcStatusChanged"] = <<Monitor, "g">>
    /\ nfcListeners["tagDetected"] = {"f"}

\* C38: a record written by the radio backend and read back keeps its type
\* code: a text record written with type "T" is read with type "T", a URI
\* record written with type "U" is read with type "U", each with TNF
\* WELL_KNOWN.
C38_TypeCodeRoundTrip ==
    ReadTag =>
        \A m \in WriteMessages : Wrote(m) =>
            \A i \in 1..Len(m) : m[i].type \in {TEXT, URI} =>
                (Decoded[i].type = m[i].type /\ Decoded[i].tnf = WELL_KNOWN)

\* the (major, minor) pair of a version token, a missing minor being 0
Pair(m) == <<m[1], IF Len(m) > 1 THEN m[2] ELSE 0>>

\* p is below q in the lexicographic order of (major, minor)
LexBelow(p, q) == p[1] < q[1] \/ (p[1] = q[1] /\ p[2] < q[2])

\* C39: the parsed version is monotone in the (major, minor) pair: a token
\* whose pair is lexicographically below that of another has no greater
\* parsed version, and a token whose pair is below the threshold of the
\* platform (iOS 11, Android 4.0) never yields native NFC support, minor
\* components of 10 or more included.
C39_VersionMonotone ==
    last.op = "detect" =>
        /\ (Sniffed.iosToken /\ IosFacts.version # Null) =>
              /\ \A t \in VersionTexts :
                    (matchOs(t) # <<>>
                     /\ LexBelow(Pair(matchOs(Sniffed.os)), Pair(matchOs(t)))) =>
                        IosFacts.version[1] <=
                            getIosSupportInfo(
                                UA(TRUE, matchOs(t), FALSE, <<>>, FALSE, FALSE)).version[1]
              /\ LexBelow(Pair(matchOs(Sniffed.os)), <<IOS_MIN_VERSION, 0>>) =>
                    ~IosFacts.supportsNfc
        /\ (Sniffed.androidToken /\ AndroidFacts.version # Null) =>
              /\ \A t \in VersionTexts :
                    (matchAndroid(t) # <<>>
                     /\ LexBelow(Pair(matchAndroid(Sniffed.android)),
                                 Pair(matchAndroid(t)))) =>
                        AndroidFacts.version[1] <=
                            getAndroidSupportInfo(
                                UA(FALSE, <<>>, TRUE, matchAndroid(t), FALSE, FALSE)).version[1]
              /\ LexBelow(Pair(matchAndroid(Sniffed.android)),
                          <<ANDROID_MIN_VERSION, 0>>) =>
                    ~AndroidFacts.supportsNfc

\* the number of registrations of c in a list
Count(list, c) == Cardinality({i \in 1..Len(list) : list[i] = c})

\* C35: remove() on a handle deletes every registration of its function
\* under its event name in both registries, whenever and however often the
\* function was registered, and deletes no registration of another function
\* or of the same function under another event name.
C35_RemoveByIdentity ==
    [][\A e \in Events, c \in Callbacks :
          (last'.op = "remove" /\ last'.arg = <<e, c>>) =>
             /\ Count(listeners'[e], c) = 0
             /\ c \notin nfcListeners'[e]
             /\ \A e2 \in Events, c2 \in Callbacks \cup {Monitor} :
                   (<<e2, c2>> # <<e, c>>) =>
                      /\ Count(listeners'[e2], c2) = Count(listeners[e2], c2)
                      /\ (c2 \in nfcListeners'[e2]) <=> (c2 \in nfcListeners[e2])]_vars

C35_Witness ==
    /\ nfc
    /\ last.op = "remove"
    /\ last.arg = <<"tagDetected", "f">>
    /\ listeners["tagDetected"] = <<"g", "g">>
    /\ nfcListeners["tagDetected"] = {"g"}
    /\ "f" \in nfcListeners["nfcStatusChanged"]
    /\ Count(listeners["nfcStatusChanged"], "f") = 2

\* C36: on the radio backend, in a session started with once: true, after
\* the first successfully parsed detection event has been processed the
\* session-active flag is false, also when a tagDetected listener throws
\* while it handles the event.
C36_OnceEndsDespiteThrow ==
    [][(implementation = "WebNfc" /\ scanOnce /\ last'.op = "reading"
        /\ last'.data # Null) => ~scanSessionActive']_vars

\* the step is a tag-detection message posted to an available bridge backend
TagMessage(step) ==
    /\ implementation \in Bridges
    /\ isBridgeAvailable
    /\ step.op = "message"
    /\ step.arg = <<"nfcTagDetected">>

\* C32: once has the same effect on a bridge backend as on the radio
\* backend: in a session started with once: true, after the first
\* tag-detection message has been dispatched the session is ended, and a
\* later tag-detection message is not dispatched to the tagDetected
\* listeners unless a new session is started.
C32_BridgeOnceEnds ==
    [][(session = "onceDone" /\ TagMessage(last')) =>
          (last'.data = Null /\ last'.invoked = NoCalls)]_vars

\* C34: a bridge backend keeps no session-active state: when its bridge was
\* available at construction, a well-formed tag-detection message is
\* dispatched to the tagDetected listeners whether no scan session was ever
\* started, one is running, or stopScanSession has resolved.
C34_BridgeAlwaysDispatches ==
    [][TagMessage(last') =>
          /\ last'.data = Some([tag |-> "tag"])
          /\ listeners["tagDetected"] # <<>> =>
                last'.invoked[listeners["tagDetected"][1]] >= 1]_vars

C34_Witness ==
    /\ TagMessage(last)
    /\ session = "stopped"
    /\ listeners["tagDetected"] = <<"f", "g">>
    /\ last.invoked = [f |-> 1, g |-> 1]
    /\ last.data = Some([tag |-> "tag"])

\* C33: on the radio backend, while no stopScanSession is invoked, once a
\* startScanSession call has resolved the session-active flag is true and
\* the reading events of its reader are dispatched, however the calls
\* overlap and also when another call's native scan rejects; and a call
\* whose native scan rejects is rejected and, when no other call is armed,
\* leaves no active session.
C33_OverlappingScans ==
    [][(implementation = "WebNfc") =>
          /\ scanning' # {} => scanSessionActive'
          /\ (last'.op = "reading" /\ last'.arg = <<"tag">>) => last'.data # Null
          /\ (pending' # pending /\ pending' \subseteq pending /\ scanning' = scanning) =>
                /\ last'.outcome = "rejected"
                /\ (scanning = {} /\ pending' = {}) => ~scanSessionActive']_vars

\* the step is a tag detection on the backend of a SimpleNfc
Detection == simpleNfc # <<>> /\ last.op \in {"reading", "message"} /\ last.data # Null

\* the calls of scanCallback the listeners of startReading made in the last
\* step: each listener called calls it once, unless it is null
ScanCallbackCalls ==
    IF simpleNfc[1] = Null THEN 0 ELSE last.invoked["f"] + last.invoked["g"]

\* C37: each detected tag invokes the SimpleNfc callback at most once,
\* however many times startReading was called before, calls whose
\* startScanSession rejected included; and after stopReading has resolved no
\* detection invokes a callback until startReading is called again.
C37_OneCallbackPerTag ==
    Detection =>
        /\ ScanCallbackCalls <= 1
        /\ simpleNfc[1] = Null => last.invoked = NoCalls

\* the record has a URI, the record has a text, as the listener sees them
HasUri(r) == r.uri # <<>> \/ (r.type \in {URI, <<"url">>} /\ r.payload # <<>>)
HasText(r) == r.text # <<>> \/ (r.type \in {TEXT, <<"text">>} /\ r.payload # <<>>)

\* the first of the records at the positions hits, <<>> when there is none
FirstAt(records, hits) ==
    IF hits = {} THEN <<>>
    ELSE <<records[CHOOSE i \in hits : \A j \in hits : i <= j]>>

\* what the callback is to receive for a tag; empty is what stands for an
\* empty payload, first the records among which the first one is taken
Expected(t, first, empty) ==
    LET all == flatten(t)
        u == FirstAt(all, {i \in 1..Len(all) : HasUri(all[i])})
        x == FirstAt(all, {i \in 1..Len(all) : HasText(all[i])})
    IN IF u # <<>>
       THEN Told(IF u[1].uri # <<>> THEN u[1].uri ELSE u[1].payload, "url")
       ELSE IF x # <<>>
       THEN Told(IF x[1].text # <<>> THEN x[1].text ELSE x[1].payload, "text")
       ELSE IF first # <<>>
       THEN Told(IF first[1].payload # <<>> THEN first[1].payload ELSE empty, "other")
       ELSE Told(<<"Empty tag">>, "other")

\* the step is a call of the SimpleNfc callback for a tag
CallbackTold == last.op = "tagDetected" /\ last.data # Null

\* C31 as stated: for each detected tag the SimpleNfc callback receives
\* (content, type) by this priority: the first record with a URI gives type
\* "url"; otherwise the first record with a text gives type "text";
\* otherwise type "other" with the first record's payload, or "Empty tag"
\* when the tag has no record; type is one of "url", "text", "other".
C31_ContentAndType ==
    CallbackTold =>
        /\ last.data[1] = Expected(last.input[1], flatten(last.input[1]), <<>>)
        /\ last.data[1].type \in {"url", "text", "other"}

\* C31 as amended: the same priority; type "other" comes with the payload
\* of the first record of the first message, or "Unknown content" when that
\* payload is empty, or "Empty tag" when the tag has no first message or
\* its first message has no record.
C31_ContentAndTypeAmended ==
    CallbackTold =>
        /\ last.data[1] =
              Expected(last.input[1],
                       IF last.input[1] = <<>> THEN <<>> ELSE last.input[1][1],
                       <<"Unknown content">>)
        /\ last.data[1].type \in {"url", "text", "other"}

C31_Witness ==
    /\ CallbackTold
    /\ last.input[1] = <<<<Rec(TEXT, <<"p">>, <<"t">>, <<>>), Rec(URI, <<"p">>, <<>>, <<"u">>)>>>>
    /\ last.data[1] = Told(<<"u">>, "url")

====
